---- MODULE Spec2Model ----
(***************************************************************************)
(* Model of the thermal-printer tool en0b/print3r.                         *)
(*                                                                         *)
(*   src/print3r.py     first revision  (rev = "v1")                       *)
(*   src/print3r_v2.py  second revision (rev = "v2")                       *)
(*   src/print3r_v4.py  fourth revision (rev = "v4", and rev = "helper"    *)
(*                      for direct calls of PrinterHelper)                 *)
(*                                                                         *)
(* Threads are numbered: 0 is the background image worker started in the   *)
(* constructor, 1..MaxReq are the per-request threads the v4 buttons start.*)
(* A print session (one call of PrinterHelper.print_image_bandwise or      *)
(* PrinterHelper.print_image) is the record job[t]; handle[t] says whether *)
(* the ThermalPrinter the call opened is still open; log[t] is the history *)
(* of what the call did to the device.                                     *)
(***************************************************************************)
EXTENDS Integers, Sequences, FiniteSets, TLC

VARIABLES
    rev,                \* which program is running
    print_event,        \* threading.Event shared by UI and worker
    print_cancel_flag,  \* ThermalPrintTool.print_cancel_flag
    printer_port,       \* ThermalPrintTool.printer_port
    source_image,       \* ThermalPrintTool.source_image / globalSourceImage
    display_image,      \* ThermalPrintTool.display_image / globalDisplayImage
    status,             \* text last handed to update_status
    uiResult,           \* what the last UI handler told the user
    job,                \* per thread: the print call it is executing
    handle,             \* per thread: its ThermalPrinter is open
    log,                \* per thread: device history of the current call
    cancelSnap,         \* history: what a direct call had done when the flag was raised
    cancelSinceStart,   \* history: cancel_print called since the worker began its job
    kind,               \* per thread: what the thread was started for
    requests,           \* history: printImage / print_image calls so far, modulo 2
    pace,               \* the pacing arithmetic of the band being printed
    probe,              \* the discovery running on the UI thread, if any
    raster              \* the image being prepared for output, pixel by pixel

vars ==
    << rev, print_event, print_cancel_flag, printer_port, source_image,
       display_image, status, uiResult, job, handle, log, cancelSnap,
       cancelSinceStart, kind, requests, pace, probe, raster >>

----------------------------------------------------------------------------
(* Bounds of the model *)

MaxReq == 1

MaxHeight == 5

MaxBandHeight == 3

MaxFeed == 2

MaxBands == 2

----------------------------------------------------------------------------
(* Program constants *)

NoPort == "None"

COM == "COM6"

NoImage == 0

BAND_HEIGHT == 64

WORKER_FEED_LINES == 10

PRINT_LINES_FEED == 5

Worker == 0

Caller == 1

ReqThreads == 1..MaxReq

Threads == {Worker} \cup ReqThreads

----------------------------------------------------------------------------
(* Small helpers *)

Min(a, b) == IF a < b THEN a ELSE b

Max(a, b) == IF a > b THEN a ELSE b

Ev(op, yy, hh, r) == [op |-> op, y |-> yy, h |-> hh, r |-> r]

IdleJob ==
    [pc |-> "idle", fn |-> "none", H |-> 0, band_height |-> 0,
     feed_lines |-> 0, getter |-> FALSE, y |-> 0, feeds |-> 0,
     feedFailed |-> FALSE, exc |-> "none", updates |-> 0,
     call |-> 0, cancelled |-> FALSE, pending |-> FALSE]

NewJob(f, h, bhh, fl, g) ==
    [pc |-> "open", fn |-> f, H |-> h, band_height |-> bhh,
     feed_lines |-> fl, getter |-> g, y |-> 0, feeds |-> 0,
     feedFailed |-> FALSE, exc |-> "none", updates |-> 0,
     call |-> 1, cancelled |-> FALSE, pending |-> FALSE]

NoSnap == [set |-> FALSE, n |-> 0, inflight |-> FALSE]

\* the jobs of print3r_v4.py whose first statement is
\* self.print_cancel_flag = False
ClearsFlag == {"text", "calendar", "weather", "meme", "joke"}

\* the jobs that fetch their data before they print
Fetches == {"calendar", "weather", "meme", "joke"}

MEME_FEED_LINES == 8

\* one print call of a job: swallowed says that an exception of the call is
\* caught around it and the job goes on
Call(f, fl, g, sw) ==
    [fn |-> f, feed_lines |-> fl, getter |-> g, swallowed |-> sw]

\* the print calls a job makes, in order. print_weather: the head lines,
\* the icon (print_image inside _print_weather_icon's own try), an empty
\* ticket without getter, the 'now' block, the forecast. print_meme: the
\* image, and as second entry _print_fallback_no_meme, which runs instead
\* of or after a failed first call.
Calls(k) ==
    IF k = "weather"
    THEN << Call("bandwise", 0, TRUE, FALSE),
            Call("print_image", 0, FALSE, TRUE),
            Call("bandwise", 1, FALSE, FALSE),
            Call("bandwise", 1, TRUE, FALSE),
            Call("bandwise", 3, TRUE, FALSE) >>
    ELSE IF k = "meme"
    THEN << Call("bandwise", MEME_FEED_LINES, TRUE, FALSE),
            Call("bandwise", PRINT_LINES_FEED, FALSE, TRUE) >>
    ELSE IF k = "test"
    THEN << Call("bandwise", PRINT_LINES_FEED, FALSE, FALSE) >>
    ELSE << Call("bandwise", PRINT_LINES_FEED, TRUE, FALSE) >>

\* offsets of the bands a call has delivered, in delivery order
RECURSIVE SentOffsets(_)
SentOffsets(s) ==
    IF s = << >> THEN << >>
    ELSE IF Head(s).op = "send" /\ Head(s).r = "ok"
         THEN << Head(s).y >> \o SentOffsets(Tail(s))
         ELSE SentOffsets(Tail(s))

CountOp(s, op) == Cardinality({i \in DOMAIN s : s[i].op = op})

\* number of bands of an image of height h cut into bands of bhh rows
NumBands(h, bhh) == (h + bhh - 1) \div bhh

\* a float, kept exactly as the fraction n / d with d > 0
Frac(n, d) == [n |-> n, d |-> d]

FracLe(a, b) == a.n * b.d <= b.n * a.d

FracEq(a, b) == a.n * b.d = b.n * a.d

FracMin(a, b) == IF FracLe(a, b) THEN a ELSE b

FracMax(a, b) == IF FracLe(a, b) THEN b ELSE a

NoPace ==
    [fn |-> "none", W |-> 0, N |-> 0, band_height |-> 0, base_sleep |-> 0,
     dark_bonus |-> 0, y |-> 0, bands |-> 0, rows |-> 0, black |-> 0,
     coverage |-> Frac(0, 1), delay |-> Frac(0, 1)]

\* no discovery under way; during one, who is its caller, n the number of
\* ports listed, i the port being tried, open whether the probing handle is
\* open, guess the value to return, opened the ports that opened so far,
\* held whether every open that failed so far did so while a print call
\* held a device handle
NoProbe ==
    [who |-> "none", n |-> 0, i |-> 0, open |-> FALSE, guess |-> "None",
     opened |-> << >>, held |-> TRUE]

\* no image being prepared; otherwise w, h and one_bit describe the source
\* (src its pixels when it is already 1-bit and WIDTH_PIXELS wide), W and H
\* the prepared raster, pre its pixels before and img after the rotation, y
\* the offset of the next band and sent the rows delivered so far
NoRaster ==
    [fn |-> "none", w |-> 0, h |-> 0, one_bit |-> FALSE, src |-> << >>,
     W |-> 0, H |-> 0, pre |-> << >>, img |-> << >>, band_height |-> 0,
     y |-> 0, sent |-> << >>]

----------------------------------------------------------------------------
(* PrinterHelper: one print call, step by step *)

\* PrinterHelper._open, entered by the with-statement of the print call:
\* without a port it raises; with one, ThermalPrinter(port) opens or raises.
\* The code looks at nothing else, so whether another thread holds the port
\* does not decide the outcome here.
Open(t) ==
    /\ job[t].pc = "open"
    /\ \/ /\ printer_port = NoPort
          /\ job' = [job EXCEPT ![t].pc = "raised", ![t].exc = "NotConnected"]
          /\ UNCHANGED << handle, log >>
       \/ /\ printer_port # NoPort
          /\ job' = [job EXCEPT ![t].pc = "raised", ![t].exc = "OpenFailed"]
          /\ UNCHANGED << handle, log >>
       \/ /\ printer_port # NoPort
          /\ handle' = [handle EXCEPT ![t] = TRUE]
          /\ log' = [log EXCEPT ![t] = Append(@, Ev("open", 0, 0, "ok"))]
          /\ job' = [job EXCEPT ![t].pc =
                        IF job[t].fn = "print_image" THEN "send" ELSE "loop"]
    /\ UNCHANGED << raster, pace, probe, rev, print_event, print_cancel_flag, printer_port,
                    source_image, display_image, status, uiResult,
                    cancelSnap, cancelSinceStart, kind,
                    requests >>

\* a crop that always takes band_height rows, beyond the image's last row
BandRowsAtUnclamped(h, bhh, yy) == bhh

\* rows of img.crop((0, y, img.width, min(H, y + band_height)))
BandRowsAt(h, bhh, yy) == Min(h, yy + bhh) - yy

\* rows of the band cut at offset y; print_image sends the whole image
BandRows(t) ==
    IF job[t].fn = "print_image" THEN job[t].H
    ELSE BandRowsAt(job[t].H, job[t].band_height, job[t].y)

\* a cancel check that never sees the flag
LoopCheckIgnoresFlag(t) ==
    /\ job[t].pc = "loop"
    /\ IF job[t].y < job[t].H
       THEN /\ job' = [job EXCEPT ![t].pc = "send"]
            /\ UNCHANGED log
       ELSE /\ job' = [job EXCEPT ![t].pc = "feed"]
            /\ log' = [log EXCEPT ![t] = Append(@, Ev("safe_feed", job[t].y, 0, "call"))]
    /\ UNCHANGED << raster, pace, probe, rev, print_event, print_cancel_flag, printer_port,
                    source_image, display_image, status, uiResult, handle,
                    cancelSnap, cancelSinceStart, kind,
                    requests >>

\* a cancel check that returns instead of breaking: release without feed
LoopCheckReturnsOnCancel(t) ==
    /\ job[t].pc = "loop"
    /\ IF job[t].y < job[t].H
       THEN IF job[t].getter /\ print_cancel_flag
            THEN /\ job' = [job EXCEPT ![t].pc = "done"]
                 /\ handle' = [handle EXCEPT ![t] = FALSE]
                 /\ log' = [log EXCEPT ![t] = Append(@, Ev("close", job[t].y, 0, "ok"))]
            ELSE /\ job' = [job EXCEPT ![t].pc = "send"]
                 /\ UNCHANGED << log, handle >>
       ELSE /\ job' = [job EXCEPT ![t].pc = "feed"]
            /\ log' = [log EXCEPT ![t] = Append(@, Ev("safe_feed", job[t].y, 0, "call"))]
            /\ UNCHANGED handle
    /\ UNCHANGED << raster, pace, probe, rev, print_event, print_cancel_flag, printer_port,
                    source_image, display_image, status, uiResult,
                    cancelSnap, cancelSinceStart, kind,
                    requests >>

\* head of the band loop: while y < H, the cancel check, else safe_feed
LoopCheck(t) ==
    /\ job[t].pc = "loop"
    /\ IF job[t].y < job[t].H
       THEN IF job[t].getter /\ print_cancel_flag
            THEN /\ job' = [job EXCEPT ![t].pc = "feed"]
                 /\ log' = [log EXCEPT ![t] =
                               Append(@, Ev("safe_feed", job[t].y, 0, "call"))]
            ELSE /\ job' = [job EXCEPT ![t].pc = "send"]
                 /\ UNCHANGED log
       ELSE /\ job' = [job EXCEPT ![t].pc = "feed"]
            /\ log' = [log EXCEPT ![t] =
                          Append(@, Ev("safe_feed", job[t].y, 0, "call"))]
    /\ UNCHANGED << raster, pace, probe, rev, print_event, print_cancel_flag, printer_port,
                    source_image, display_image, status, uiResult, handle,
                    cancelSnap, cancelSinceStart, kind,
                    requests >>

\* a band loop that goes back to its head without the pacing sleep
AfterSendSkipsSleep(t) ==
    IF job[t].fn = "print_image" THEN "feed" ELSE "loop"

\* where a call goes once printer.image has returned
AfterSend(t) ==
    IF job[t].fn = "print_image" THEN "feed" ELSE "sleep"

\* effect of a printer.image call that returned
Delivered(t) ==
    /\ job' = [job EXCEPT ![t].pc = AfterSend(t)]
    /\ log' = [log EXCEPT ![t] =
                  IF job[t].fn = "print_image"
                  THEN @ \o << Ev("send", job[t].y, BandRows(t), "ok"),
                               Ev("safe_feed", job[t].y, 0, "call") >>
                  ELSE Append(@, Ev("send", job[t].y, BandRows(t), "ok"))]
    /\ UNCHANGED handle

\* _with_retry, first call of fn
ImageAttempt(t) ==
    /\ job[t].pc = "send"
    /\ \/ Delivered(t)
       \/ /\ job' = [job EXCEPT ![t].pc = "retry"]
          /\ log' = [log EXCEPT ![t] =
                        Append(@, Ev("send", job[t].y, BandRows(t), "fail"))]
          /\ UNCHANGED handle
    /\ UNCHANGED << raster, pace, probe, rev, print_event, print_cancel_flag, printer_port,
                    source_image, display_image, status, uiResult,
                    cancelSnap, cancelSinceStart, kind,
                    requests >>

\* a retry whose failure leaves the with-block without closing the printer
ImageRetryLeaksHandle(t) ==
    /\ job[t].pc = "retry"
    /\ \/ Delivered(t)
       \/ /\ job' = [job EXCEPT ![t].pc = "raised", ![t].exc = "SendFailed"]
          /\ log' = [log EXCEPT ![t] =
                        Append(@, Ev("send", job[t].y, BandRows(t), "fail"))]
          /\ UNCHANGED handle
    /\ UNCHANGED << raster, pace, probe, rev, print_event, print_cancel_flag, printer_port,
                    source_image, display_image, status, uiResult,
                    cancelSnap, cancelSinceStart, kind,
                    requests >>

\* a retry that swallows the second failure and goes on with the next band
ImageRetrySwallows(t) ==
    /\ job[t].pc = "retry"
    /\ \/ Delivered(t)
       \/ /\ job' = [job EXCEPT ![t].pc = AfterSend(t)]
          /\ log' = [log EXCEPT ![t] =
                        Append(@, Ev("send", job[t].y, BandRows(t), "fail"))]
          /\ UNCHANGED handle
    /\ UNCHANGED << raster, pace, probe, rev, print_event, print_cancel_flag, printer_port,
                    source_image, display_image, status, uiResult,
                    cancelSnap, cancelSinceStart, kind,
                    requests >>

\* a retry that sends the band once more after the retry succeeded
ImageRetryResends(t) ==
    /\ job[t].pc = "retry"
    /\ \/ /\ job' = [job EXCEPT ![t].pc = AfterSend(t)]
          /\ log' = [log EXCEPT ![t] =
                        @ \o << Ev("send", job[t].y, BandRows(t), "ok"),
                                Ev("send", job[t].y, BandRows(t), "ok") >>]
          /\ UNCHANGED handle
       \/ /\ job' = [job EXCEPT ![t].pc = "raised", ![t].exc = "SendFailed"]
          /\ handle' = [handle EXCEPT ![t] = FALSE]
          /\ log' = [log EXCEPT ![t] =
                        @ \o << Ev("send", job[t].y, BandRows(t), "fail"),
                                Ev("close", job[t].y, 0, "ok") >>]
    /\ UNCHANGED << raster, pace, probe, rev, print_event, print_cancel_flag, printer_port,
                    source_image, display_image, status, uiResult,
                    cancelSnap, cancelSinceStart, kind,
                    requests >>

\* _with_retry, the except branch: sleep 0.3 s and call fn once more; a
\* second exception leaves the with-block, which closes the printer
ImageRetry(t) ==
    /\ job[t].pc = "retry"
    /\ \/ Delivered(t)
       \/ /\ job' = [job EXCEPT ![t].pc = "raised", ![t].exc = "SendFailed"]
          /\ handle' = [handle EXCEPT ![t] = FALSE]
          /\ log' = [log EXCEPT ![t] =
                        @ \o << Ev("send", job[t].y, BandRows(t), "fail"),
                                Ev("close", job[t].y, 0, "ok") >>]
    /\ UNCHANGED << raster, pace, probe, rev, print_event, print_cancel_flag, printer_port,
                    source_image, display_image, status, uiResult,
                    cancelSnap, cancelSinceStart, kind,
                    requests >>

\* a loop that steps one row short, so that bands overlap
SleepStepsShort(t) ==
    /\ job[t].pc = "sleep"
    /\ job' = [job EXCEPT ![t].pc = "loop",
                          ![t].y = job[t].y + Max(1, job[t].band_height - 1)]
    /\ log' = [log EXCEPT ![t] = Append(@, Ev("sleep", job[t].y, BandRows(t), "ok"))]
    /\ UNCHANGED << raster, pace, probe, rev, print_event, print_cancel_flag, printer_port,
                    source_image, display_image, status, uiResult, handle,
                    cancelSnap, cancelSinceStart, kind,
                    requests >>

\* a band whose pacing sleep is dropped when the flag is found set after
\* the send: the loop is left at once
SleepChecksFlag(t) ==
    /\ job[t].pc = "sleep"
    /\ IF job[t].getter /\ print_cancel_flag
       THEN /\ job' = [job EXCEPT ![t].pc = "feed"]
            /\ log' = [log EXCEPT ![t] =
                          Append(@, Ev("safe_feed", job[t].y, 0, "call"))]
       ELSE /\ job' = [job EXCEPT ![t].pc = "loop",
                                  ![t].y = job[t].y + job[t].band_height]
            /\ log' = [log EXCEPT ![t] =
                          Append(@, Ev("sleep", job[t].y, BandRows(t), "ok"))]
    /\ UNCHANGED << raster, pace, probe, rev, print_event, print_cancel_flag, printer_port,
                    source_image, display_image, status, uiResult, handle,
                    cancelSnap, cancelSinceStart, kind,
                    requests >>

\* a band loop that sleeps but never moves on to the next offset
SleepKeepsOffset(t) ==
    /\ job[t].pc = "sleep"
    /\ job' = [job EXCEPT ![t].pc = "loop"]
    /\ log' = [log EXCEPT ![t] = Append(@, Ev("sleep", job[t].y, BandRows(t), "ok"))]
    /\ UNCHANGED << raster, pace, probe, rev, print_event, print_cancel_flag, printer_port,
                    source_image, display_image, status, uiResult, handle,
                    cancelSnap, cancelSinceStart, kind,
                    requests >>

\* the pacing sleep of a band, then y += band_height
Sleep(t) ==
    /\ job[t].pc = "sleep"
    /\ job' = [job EXCEPT ![t].pc = "loop",
                          ![t].y = job[t].y + job[t].band_height]
    /\ log' = [log EXCEPT ![t] = Append(@, Ev("sleep", job[t].y, BandRows(t), "ok"))]
    /\ UNCHANGED << raster, pace, probe, rev, print_event, print_cancel_flag, printer_port,
                    source_image, display_image, status, uiResult, handle,
                    cancelSnap, cancelSinceStart, kind,
                    requests >>

\* the feed attempts of safe_feed(printer, n): one printer.out("") per
\* element of range(max(0, n))
FeedEvents(n) == [i \in 1..Max(0, n) |-> Ev("feed", i - 1, 0, "try")]

\* a safe_feed in which a failing printer.out escapes as an exception: the
\* k-th attempt is the last, and the with-block closes the printer
SafeFeedRaises(t) ==
    /\ job[t].pc = "feed"
    /\ \/ /\ job' = [job EXCEPT ![t].pc = "release",
                                ![t].feeds = Max(0, job[t].feed_lines)]
          /\ log' = [log EXCEPT ![t] = @ \o FeedEvents(job[t].feed_lines)]
          /\ UNCHANGED handle
       \/ \E k \in 1..Max(0, job[t].feed_lines) :
             /\ job' = [job EXCEPT ![t].feeds = k, ![t].feedFailed = TRUE,
                                   ![t].pc = "raised", ![t].exc = "FeedFailed"]
             /\ handle' = [handle EXCEPT ![t] = FALSE]
             /\ log' = [log EXCEPT ![t] =
                           @ \o FeedEvents(k) \o << Ev("close", job[t].y, 0, "ok") >>]
    /\ UNCHANGED << raster, pace, probe, rev, print_event, print_cancel_flag, printer_port,
                    source_image, display_image, status, uiResult,
                    cancelSnap, cancelSinceStart, kind,
                    requests >>

\* safe_feed(printer, feed_lines): for each element of range(max(0, n)) one
\* printer.out(""), whose exception is swallowed; failed says whether any
\* attempt raised
SafeFeed(t) ==
    /\ job[t].pc = "feed"
    /\ \E failed \in BOOLEAN :
          /\ failed => job[t].feed_lines > 0
          /\ job' = [job EXCEPT ![t].pc = "release",
                                ![t].feeds = Max(0, job[t].feed_lines),
                                ![t].feedFailed = failed]
    /\ log' = [log EXCEPT ![t] = @ \o FeedEvents(job[t].feed_lines)]
    /\ UNCHANGED << raster, pace, probe, rev, print_event, print_cancel_flag, printer_port,
                    source_image, display_image, status, uiResult, handle,
                    cancelSnap, cancelSinceStart, kind,
                    requests >>

\* end of the with-block after safe_feed returned: the printer is closed
Release(t) ==
    /\ job[t].pc = "release"
    /\ job' = [job EXCEPT ![t].pc = "done"]
    /\ handle' = [handle EXCEPT ![t] = FALSE]
    /\ log' = [log EXCEPT ![t] = Append(@, Ev("close", job[t].y, 0, "ok"))]
    /\ UNCHANGED << raster, pace, probe, rev, print_event, print_cancel_flag, printer_port,
                    source_image, display_image, status, uiResult,
                    cancelSnap, cancelSinceStart, kind,
                    requests >>

\* the steps of a print call
JobStep(t) ==
    \/ Open(t)
    \/ LoopCheck(t)
    \/ ImageAttempt(t)
    \/ ImageRetry(t)
    \/ Sleep(t)
    \/ SafeFeed(t)
    \/ Release(t)

\* history kept for direct calls of PrinterHelper, where the flag is never
\* lowered again: what the job had delivered when the flag was first raised,
\* and whether a band was being sent at that moment
SnapOf(t) ==
    IF rev # "helper" \/ job[t].pc \in {"idle", "done", "raised"} \/ cancelSnap[t].set
    THEN cancelSnap[t]
    ELSE [set |-> TRUE, n |-> Len(SentOffsets(log[t])),
          inflight |-> job[t].pc \in {"send", "retry"}]

\* ThermalPrintTool.cancel_print; the cancelled field of a running job that
\* clears the flag at its start records that the call came after that start
CancelPrint ==
    /\ rev \in {"v2", "v4", "helper"}
    /\ print_cancel_flag' = TRUE
    /\ cancelSnap' = [t \in Threads |-> SnapOf(t)]
    /\ cancelSinceStart' = TRUE
    /\ job' = [t \in Threads |->
                  IF kind[t] \in ClearsFlag /\ job[t].pc \notin {"idle", "start"}
                  THEN [job[t] EXCEPT !.cancelled = TRUE]
                  ELSE job[t]]
    /\ UNCHANGED << raster, pace, probe, rev, print_event, printer_port, source_image,
                    display_image, status, uiResult, handle, log, kind,
                    requests >>

----------------------------------------------------------------------------
(* Direct calls of PrinterHelper: one call with arbitrary arguments *)

InitHelper ==
    /\ rev = "helper"
    /\ print_event = FALSE
    /\ print_cancel_flag = FALSE
    /\ printer_port \in {NoPort, COM}
    /\ source_image = NoImage
    /\ display_image = NoImage
    /\ status = "none"
    /\ uiResult = "none"
    /\ \E f \in {"bandwise", "print_image"}, h \in 1..MaxHeight,
          bhh \in 1..MaxBandHeight, fl \in (0 - 1)..MaxFeed, g \in BOOLEAN :
          /\ f = "print_image" => ~g
          /\ job = [t \in Threads |->
                       IF t = Caller THEN NewJob(f, h, bhh, fl, g) ELSE IdleJob]
    /\ handle = [t \in Threads |-> FALSE]
    /\ log = [t \in Threads |-> << >>]
    /\ cancelSnap = [t \in Threads |-> NoSnap]
    /\ cancelSinceStart = FALSE
    /\ kind = [t \in Threads |-> IF t = Caller THEN "call" ELSE "none"]
    /\ requests = 0
    /\ pace = NoPace
    /\ probe = NoProbe
    /\ raster = NoRaster

HelperOpen == Open(Caller)

HelperLoopCheck == LoopCheck(Caller)

HelperImageAttempt == ImageAttempt(Caller)

HelperImageRetry == ImageRetry(Caller)

HelperSleep == Sleep(Caller)

HelperSafeFeed == SafeFeed(Caller)

HelperRelease == Release(Caller)

NextHelper ==
    \/ HelperOpen
    \/ HelperLoopCheck
    \/ HelperImageAttempt
    \/ HelperImageRetry
    \/ HelperSleep
    \/ HelperSafeFeed
    \/ HelperRelease
    \/ CancelPrint

SpecHelper == InitHelper /\ [][NextHelper]_vars

----------------------------------------------------------------------------
(* The applications: UI handlers, the background worker, request threads *)

CHUNK_LINES == 20

V2_FEED_LINES == 3

MaxHeight1 == 45

\* heights of the images offered to the v2 and v4 programs: one row, and
\* one row more than b-1 full bands
Heights == {BAND_HEIGHT * (b - 1) + 1 : b \in 1..MaxBands}

Heights1 == 1..MaxHeight1

WaitJob == [IdleJob EXCEPT !.pc = "wait"]

\* Python 3 round(a / b) for a >= 0, b > 0: ties go to the even integer
Round(a, b) ==
    LET q == a \div b
        r == a % b
    IN  IF 2 * r < b THEN q
        ELSE IF 2 * r > b THEN q + 1
        ELSE IF q % 2 = 0 THEN q ELSE q + 1

\* print3r.py: number of slices image_slicer_and_scaler cuts
Slices(h) == Round(h, CHUNK_LINES)

\* print3r.py image_slicer_and_scaler: the crop boxes of the slices, in
\* order; upper starts at 0 and grows by CHUNK_LINES, lower is
\* count * CHUNK_LINES except for the last slice, whose lower is the height
image_slicer_and_scaler(h) ==
    [count \in 1..Slices(h) |->
        [upper |-> (count - 1) * CHUNK_LINES,
         lower |-> IF count = Slices(h) THEN h ELSE count * CHUNK_LINES]]

\* print3r.py: rows of the slice whose upper edge is job[t].y
SliceRows(t) ==
    LET box == image_slicer_and_scaler(job[t].H)[job[t].y \div CHUNK_LINES + 1]
    IN  box.lower - box.upper

\* print3r.py openImage / repaintImages
OpenImage1(h) ==
    /\ rev = "v1"
    /\ source_image' = h
    /\ display_image' = h
    /\ UNCHANGED << raster, pace, probe, rev, print_event, print_cancel_flag, printer_port,
                    status, uiResult, job, handle, log, cancelSnap,
                    cancelSinceStart, kind, requests >>

\* a printImage without the busy check
PrintImage1NoBusyCheck ==
    /\ rev = "v1"
    /\ IF source_image = NoImage
       THEN /\ uiResult' = "No image loaded"
            /\ UNCHANGED print_event
       ELSE /\ print_event' = TRUE
            /\ uiResult' = "none"
    /\ requests' = 1 - requests
    /\ UNCHANGED << raster, pace, probe, rev, print_cancel_flag, printer_port, source_image,
                    display_image, status, job, handle, log, cancelSnap,
                    cancelSinceStart, kind >>

\* print3r.py printImage
PrintImage1 ==
    /\ rev = "v1"
    /\ IF source_image = NoImage
       THEN /\ uiResult' = "No image loaded"
            /\ UNCHANGED print_event
       ELSE IF print_event
            THEN /\ uiResult' = "Another print is running"
                 /\ UNCHANGED print_event
            ELSE /\ print_event' = TRUE
                 /\ uiResult' = "none"
    /\ requests' = 1 - requests
    /\ UNCHANGED << raster, pace, probe, rev, print_cancel_flag, printer_port, source_image,
                    display_image, status, job, handle, log, cancelSnap,
                    cancelSinceStart, kind >>

\* print3r.py printThreadFcn: evt.wait(1) returned True, the image is sliced
WorkerWake1 ==
    /\ rev = "v1"
    /\ job[Worker].pc = "wait"
    /\ print_event
    /\ job' = [job EXCEPT ![Worker] =
                  [NewJob("v1", display_image, CHUNK_LINES, 2, FALSE)
                      EXCEPT !.pc = "v1_open"]]
    /\ log' = [log EXCEPT ![Worker] = << >>]
    /\ UNCHANGED << raster, pace, probe, rev, print_event, print_cancel_flag, printer_port,
                    source_image, display_image, status, uiResult, handle,
                    cancelSnap, cancelSinceStart, kind,
                    requests >>

\* print3r.py printThreadFcn: with ThermalPrinter(port='COM6', ...); an
\* exception ends the thread
V1Open ==
    /\ job[Worker].pc = "v1_open"
    /\ \/ /\ handle' = [handle EXCEPT ![Worker] = TRUE]
          /\ log' = [log EXCEPT ![Worker] = Append(@, Ev("open", 0, 0, "ok"))]
          /\ job' = [job EXCEPT ![Worker].pc = "v1_loop"]
       \/ /\ job' = [job EXCEPT ![Worker].pc = "dead", ![Worker].exc = "OpenFailed"]
          /\ UNCHANGED << handle, log >>
    /\ UNCHANGED << raster, pace, probe, rev, print_event, print_cancel_flag, printer_port,
                    source_image, display_image, status, uiResult,
                    cancelSnap, cancelSinceStart, kind,
                    requests >>

\* print3r.py printThreadFcn: for slice in slices
V1Loop ==
    /\ job[Worker].pc = "v1_loop"
    /\ job' = [job EXCEPT ![Worker].pc =
                  IF job[Worker].y \div CHUNK_LINES + 1 <= Slices(job[Worker].H)
                  THEN "v1_image" ELSE "v1_feed"]
    /\ UNCHANGED << raster, pace, probe, rev, print_event, print_cancel_flag, printer_port,
                    source_image, display_image, status, uiResult, handle,
                    log, cancelSnap, cancelSinceStart, kind,
                    requests >>

\* print3r.py printThreadFcn: printer.image(slice); an exception leaves the
\* with-block and ends the thread
V1Image ==
    /\ job[Worker].pc = "v1_image"
    /\ \/ /\ job' = [job EXCEPT ![Worker].pc = "v1_sleep"]
          /\ log' = [log EXCEPT ![Worker] =
                        Append(@, Ev("send", job[Worker].y, SliceRows(Worker), "ok"))]
          /\ UNCHANGED handle
       \/ /\ job' = [job EXCEPT ![Worker].pc = "dead", ![Worker].exc = "SendFailed"]
          /\ handle' = [handle EXCEPT ![Worker] = FALSE]
          /\ log' = [log EXCEPT ![Worker] =
                        @ \o << Ev("send", job[Worker].y, SliceRows(Worker), "fail"),
                                Ev("close", job[Worker].y, 0, "ok") >>]
    /\ UNCHANGED << raster, pace, probe, rev, print_event, print_cancel_flag, printer_port,
                    source_image, display_image, status, uiResult,
                    cancelSnap, cancelSinceStart, kind,
                    requests >>

\* print3r.py printThreadFcn: time.sleep(ratio), next slice
V1Sleep ==
    /\ job[Worker].pc = "v1_sleep"
    /\ job' = [job EXCEPT ![Worker].pc = "v1_loop",
                          ![Worker].y = job[Worker].y + CHUNK_LINES]
    /\ UNCHANGED << raster, pace, probe, rev, print_event, print_cancel_flag, printer_port,
                    source_image, display_image, status, uiResult, handle,
                    log, cancelSnap, cancelSinceStart, kind,
                    requests >>

\* print3r.py printThreadFcn: printer.feed(2) and the end of the with-block
V1Feed ==
    /\ job[Worker].pc = "v1_feed"
    /\ \/ /\ job' = [job EXCEPT ![Worker].pc = "clear", ![Worker].feeds = 1]
          /\ log' = [log EXCEPT ![Worker] =
                        @ \o << Ev("feed", 0, 0, "try"),
                                Ev("close", job[Worker].y, 0, "ok") >>]
       \/ /\ job' = [job EXCEPT ![Worker].pc = "dead", ![Worker].feeds = 1,
                                ![Worker].feedFailed = TRUE,
                                ![Worker].exc = "FeedFailed"]
          /\ log' = [log EXCEPT ![Worker] =
                        @ \o << Ev("feed", 0, 0, "try"),
                                Ev("close", job[Worker].y, 0, "ok") >>]
    /\ handle' = [handle EXCEPT ![Worker] = FALSE]
    /\ UNCHANGED << raster, pace, probe, rev, print_event, print_cancel_flag, printer_port,
                    source_image, display_image, status, uiResult,
                    cancelSnap, cancelSinceStart, kind,
                    requests >>

\* evt.clear() / event.clear() at the end of the worker's loop body
WorkerClear ==
    /\ rev \in {"v1", "v2", "v4"}
    /\ job[Worker].pc = "clear"
    /\ print_event' = FALSE
    /\ job' = [job EXCEPT ![Worker] = WaitJob]
    /\ log' = [log EXCEPT ![Worker] = << >>]
    /\ cancelSnap' = [cancelSnap EXCEPT ![Worker] = NoSnap]
    /\ UNCHANGED << raster, pace, probe, rev, print_cancel_flag, printer_port, source_image,
                    display_image, status, uiResult, handle,
                    cancelSinceStart, kind, requests >>

\* print3r_v2.py open_image / process_image / repaint_images
OpenImage2(h) ==
    /\ rev = "v2"
    /\ source_image' = h
    /\ display_image' = h
    /\ UNCHANGED << raster, pace, probe, rev, print_event, print_cancel_flag, printer_port,
                    status, uiResult, job, handle, log, cancelSnap,
                    cancelSinceStart, kind, requests >>

\* print3r_v2.py ThermalPrintTool.print_image
PrintImage2 ==
    /\ rev = "v2"
    /\ IF source_image = NoImage
       THEN /\ uiResult' = "No image loaded"
            /\ UNCHANGED print_event
       ELSE IF print_event
            THEN /\ uiResult' = "Another print is running"
                 /\ UNCHANGED print_event
            ELSE /\ print_event' = TRUE
                 /\ uiResult' = "none"
    /\ requests' = 1 - requests
    /\ UNCHANGED << raster, pace, probe, rev, print_cancel_flag, printer_port, source_image,
                    display_image, status, job, handle, log, cancelSnap,
                    cancelSinceStart, kind >>

\* refresh_printer (v2 and v4): printer_port becomes what detect_printer
\* returned, a port that opened or None
RefreshPrinter ==
    /\ rev \in {"v2", "v4"}
    /\ \E r \in {NoPort, COM} : printer_port' = r
    /\ UNCHANGED << raster, pace, probe, rev, print_event, print_cancel_flag, source_image,
                    display_image, status, uiResult, job, handle, log,
                    cancelSnap, cancelSinceStart, kind,
                    requests >>

\* a worker that clears the event as soon as it takes up the job
WorkerWake2ClearsEvent ==
    /\ rev = "v2"
    /\ job[Worker].pc = "wait"
    /\ print_event
    /\ print_event' = FALSE
    /\ job' = [job EXCEPT ![Worker] =
                  IF printer_port = NoPort
                  THEN [IdleJob EXCEPT !.pc = "clear", !.exc = "NotConnected"]
                  ELSE [NewJob("v2", 0, 0, V2_FEED_LINES, FALSE)
                           EXCEPT !.pc = "v2_open"]]
    /\ log' = [log EXCEPT ![Worker] = << >>]
    /\ UNCHANGED << raster, pace, probe, rev, print_cancel_flag, printer_port,
                    source_image, display_image, status, uiResult, handle,
                    cancelSnap, cancelSinceStart, kind,
                    requests >>

\* print3r_v2.py print_thread_function: event.wait(1) returned True
WorkerWake2 ==
    /\ rev = "v2"
    /\ job[Worker].pc = "wait"
    /\ print_event
    /\ job' = [job EXCEPT ![Worker] =
                  IF printer_port = NoPort
                  THEN [IdleJob EXCEPT !.pc = "clear", !.exc = "NotConnected"]
                  ELSE [NewJob("v2", 0, 0, V2_FEED_LINES, FALSE)
                           EXCEPT !.pc = "v2_open"]]
    /\ log' = [log EXCEPT ![Worker] = << >>]
    /\ UNCHANGED << raster, pace, probe, rev, print_event, print_cancel_flag, printer_port,
                    source_image, display_image, status, uiResult, handle,
                    cancelSnap, cancelSinceStart, kind,
                    requests >>

\* print3r_v2.py print_thread_function: with ThermalPrinter(port=self.printer_port)
V2Open ==
    /\ job[Worker].pc = "v2_open"
    /\ \/ /\ printer_port # NoPort
          /\ handle' = [handle EXCEPT ![Worker] = TRUE]
          /\ log' = [log EXCEPT ![Worker] = Append(@, Ev("open", 0, 0, "ok"))]
          /\ job' = [job EXCEPT ![Worker].pc = "v2_image"]
       \/ /\ job' = [job EXCEPT ![Worker].pc = "clear", ![Worker].exc = "OpenFailed"]
          /\ UNCHANGED << handle, log >>
    /\ UNCHANGED << raster, pace, probe, rev, print_event, print_cancel_flag, printer_port,
                    source_image, display_image, status, uiResult,
                    cancelSnap, cancelSinceStart, kind,
                    requests >>

\* print3r_v2.py print_thread_function: printer.image(self.display_image)
V2Image ==
    /\ job[Worker].pc = "v2_image"
    /\ \/ /\ job' = [job EXCEPT ![Worker].pc = "v2_feed",
                                ![Worker].H = display_image]
          /\ log' = [log EXCEPT ![Worker] =
                        Append(@, Ev("send", 0, display_image, "ok"))]
          /\ UNCHANGED handle
       \/ /\ job' = [job EXCEPT ![Worker].pc = "clear",
                                ![Worker].H = display_image,
                                ![Worker].exc = "SendFailed"]
          /\ handle' = [handle EXCEPT ![Worker] = FALSE]
          /\ log' = [log EXCEPT ![Worker] =
                        @ \o << Ev("send", 0, display_image, "fail"),
                                Ev("close", 0, 0, "ok") >>]
    /\ UNCHANGED << raster, pace, probe, rev, print_event, print_cancel_flag, printer_port,
                    source_image, display_image, status, uiResult,
                    cancelSnap, cancelSinceStart, kind,
                    requests >>

\* print3r_v2.py print_thread_function: for _ in range(3): printer.out("")
V2Feed ==
    /\ job[Worker].pc = "v2_feed"
    /\ job[Worker].feeds < V2_FEED_LINES
    /\ \/ /\ job' = [job EXCEPT ![Worker].feeds = @ + 1]
          /\ log' = [log EXCEPT ![Worker] =
                        Append(@, Ev("feed", job[Worker].feeds, 0, "try"))]
          /\ UNCHANGED handle
       \/ /\ job' = [job EXCEPT ![Worker].feeds = @ + 1,
                                ![Worker].feedFailed = TRUE,
                                ![Worker].pc = "clear",
                                ![Worker].exc = "FeedFailed"]
          /\ handle' = [handle EXCEPT ![Worker] = FALSE]
          /\ log' = [log EXCEPT ![Worker] =
                        @ \o << Ev("feed", job[Worker].feeds, 0, "try"),
                                Ev("close", 0, 0, "ok") >>]
    /\ UNCHANGED << raster, pace, probe, rev, print_event, print_cancel_flag, printer_port,
                    source_image, display_image, status, uiResult,
                    cancelSnap, cancelSinceStart, kind,
                    requests >>

\* print3r_v2.py print_thread_function: end of the with-block
V2Close ==
    /\ job[Worker].pc = "v2_feed"
    /\ job[Worker].feeds >= V2_FEED_LINES
    /\ job' = [job EXCEPT ![Worker].pc = "clear"]
    /\ handle' = [handle EXCEPT ![Worker] = FALSE]
    /\ log' = [log EXCEPT ![Worker] = Append(@, Ev("close", 0, 0, "ok"))]
    /\ UNCHANGED << raster, pace, probe, rev, print_event, print_cancel_flag, printer_port,
                    source_image, display_image, status, uiResult,
                    cancelSnap, cancelSinceStart, kind,
                    requests >>

\* print3r_v4.py do_print_and_close of the Print Image dialog; h is the
\* dialog's processed image, NoImage when none is loaded
DoPrintAndClose(h) ==
    /\ rev = "v4"
    /\ IF h = NoImage
       THEN /\ uiResult' = "No image loaded"
            /\ UNCHANGED << source_image, display_image, print_event >>
       ELSE /\ source_image' = h
            /\ display_image' = h
            /\ print_event' = TRUE
            /\ uiResult' = "none"
    /\ UNCHANGED << raster, pace, probe, rev, print_cancel_flag, printer_port, status, job,
                    handle, log, cancelSnap, cancelSinceStart, kind,
                    requests >>

\* print3r_v4.py print_thread_function: event.wait(1) returned True; without
\* a port the event is cleared, else print_image_bandwise is called on
\* self.display_image
WorkerWake4 ==
    /\ rev = "v4"
    /\ job[Worker].pc = "wait"
    /\ print_event
    /\ job' = [job EXCEPT ![Worker] =
                  IF printer_port = NoPort
                  THEN [IdleJob EXCEPT !.pc = "clear", !.exc = "NotConnected"]
                  ELSE NewJob("bandwise", display_image, BAND_HEIGHT,
                              WORKER_FEED_LINES, TRUE)]
    /\ log' = [log EXCEPT ![Worker] = << >>]
    /\ cancelSnap' = [cancelSnap EXCEPT ![Worker] = NoSnap]
    /\ cancelSinceStart' = FALSE
    /\ UNCHANGED << raster, pace, probe, rev, print_event, print_cancel_flag, printer_port,
                    source_image, display_image, status, uiResult, handle,
                    kind,
                    requests >>

\* a worker without the try/except: an exception of the call ends the thread
WorkerStatus4Dies ==
    /\ rev = "v4"
    /\ job[Worker].pc \in {"done", "raised"}
    /\ status' = IF job[Worker].pc = "done" THEN "OK Image printed" ELSE status
    /\ job' = [job EXCEPT ![Worker].pc =
                               IF job[Worker].pc = "done" THEN "clear" ELSE "dead",
                          ![Worker].updates =
                               IF job[Worker].pc = "done" THEN @ + 1 ELSE @]
    /\ UNCHANGED << raster, pace, probe, rev, print_event, print_cancel_flag, printer_port,
                    source_image, display_image, uiResult, handle, log,
                    cancelSnap, cancelSinceStart, kind,
                    requests >>

\* print3r_v4.py print_thread_function: update_status after the call
\* returned or raised
WorkerStatus4 ==
    /\ rev = "v4"
    /\ job[Worker].pc \in {"done", "raised"}
    /\ status' = IF job[Worker].pc = "done" THEN "OK Image printed"
                 ELSE "ERROR Image print error"
    /\ job' = [job EXCEPT ![Worker].pc = "clear", ![Worker].updates = @ + 1]
    /\ UNCHANGED << raster, pace, probe, rev, print_event, print_cancel_flag, printer_port,
                    source_image, display_image, uiResult, handle, log,
                    cancelSnap, cancelSinceStart, kind,
                    requests >>

\* print3r_v4.py: a button starts a thread (do_print_text_and_close,
\* _threaded_test_print)
StartRequest(t, k) ==
    /\ rev = "v4"
    /\ job[t].pc = "idle"
    /\ job' = [job EXCEPT ![t].pc = "start"]
    /\ kind' = [kind EXCEPT ![t] = k]
    /\ UNCHANGED << raster, pace, probe, rev, print_event, print_cancel_flag, printer_port,
                    source_image, display_image, status, uiResult, handle,
                    log, cancelSnap, cancelSinceStart,
                    requests >>

\* the c-th print call of a job of kind k, for a ticket or image of h rows
CallJob(k, c, h, old) ==
    [NewJob(Calls(k)[c].fn, h, BAND_HEIGHT, Calls(k)[c].feed_lines,
            Calls(k)[c].getter)
     EXCEPT !.call = c, !.cancelled = old.cancelled, !.pending = old.pending,
            !.updates = old.updates]

\* a request thread that skips the assignment print_cancel_flag = False
RequestBeginKeepsFlag(t, h) ==
    /\ job[t].pc = "start"
    /\ UNCHANGED print_cancel_flag
    /\ job' = [job EXCEPT ![t] =
                  CallJob(kind[t], 1, h,
                          [job[t] EXCEPT !.pending =
                               kind[t] \in ClearsFlag /\ print_cancel_flag])]
    /\ log' = [log EXCEPT ![t] = << >>]
    /\ cancelSnap' = [cancelSnap EXCEPT ![t] = NoSnap]
    /\ UNCHANGED << raster, pace, probe, rev, print_event, printer_port, source_image,
                    display_image, status, uiResult, handle,
                    cancelSinceStart, kind, requests >>

\* print3r_v4.py _print_text_job, print_today_calendar, print_weather,
\* print_meme, print_joke and menu_test_print_impl up to their first print
\* call: all but the test print clear print_cancel_flag first; h is the
\* height of the rendered ticket or image; pending records that the job
\* found the flag set when it cleared it
RequestBegin(t, h) ==
    /\ job[t].pc = "start"
    /\ print_cancel_flag' =
          IF kind[t] \in ClearsFlag THEN FALSE ELSE print_cancel_flag
    /\ job' = [job EXCEPT ![t] =
                  CallJob(kind[t], 1, h,
                          [job[t] EXCEPT !.pending =
                               kind[t] \in ClearsFlag /\ print_cancel_flag])]
    /\ log' = [log EXCEPT ![t] = << >>]
    /\ cancelSnap' = [cancelSnap EXCEPT ![t] = NoSnap]
    /\ UNCHANGED << raster, pace, probe, rev, print_event, printer_port, source_image,
                    display_image, status, uiResult, handle,
                    cancelSinceStart, kind, requests >>

\* the fetcher of a job raises (get_today_events, get_current_and_hourly,
\* get_random_joke, get_random_meme): the flag is cleared already, the
\* except branch reports the error; print_meme then prints its fallback
\* ticket, the other jobs end
RequestFetchFails(t, h) ==
    /\ job[t].pc = "start"
    /\ kind[t] \in Fetches
    /\ print_cancel_flag' = FALSE
    /\ status' = "ERROR print error"
    /\ IF kind[t] = "meme"
       THEN /\ job' = [job EXCEPT ![t] =
                          CallJob("meme", 2, h, [job[t] EXCEPT !.updates = 1])]
            /\ UNCHANGED kind
       ELSE /\ job' = [job EXCEPT ![t] = IdleJob]
            /\ kind' = [kind EXCEPT ![t] = "none"]
    /\ log' = [log EXCEPT ![t] = << >>]
    /\ cancelSnap' = [cancelSnap EXCEPT ![t] = NoSnap]
    /\ UNCHANGED << raster, pace, probe, rev, print_event, printer_port, source_image,
                    display_image, uiResult, handle, cancelSinceStart,
                    requests >>

\* print_meme with get_random_meme returning None: the fallback ticket is
\* printed first and the status updated afterwards
RequestNoMeme(t, h) ==
    /\ job[t].pc = "start"
    /\ kind[t] = "meme"
    /\ print_cancel_flag' = FALSE
    /\ job' = [job EXCEPT ![t] = CallJob("meme", 2, h, job[t])]
    /\ log' = [log EXCEPT ![t] = << >>]
    /\ cancelSnap' = [cancelSnap EXCEPT ![t] = NoSnap]
    /\ UNCHANGED << raster, pace, probe, rev, print_event, printer_port, source_image,
                    display_image, status, uiResult, handle,
                    cancelSinceStart, kind, requests >>

\* whether the print call a job is in is followed by another one
HasNextCall(t) ==
    /\ job[t].pc \in {"done", "raised"}
    /\ IF kind[t] = "weather"
       THEN /\ job[t].call < Len(Calls("weather"))
            /\ job[t].pc = "raised" => Calls("weather")[job[t].call].swallowed
       ELSE kind[t] = "meme" /\ job[t].call = 1 /\ job[t].pc = "raised"

\* print_weather from one print call to the next, and print_meme from its
\* failed image call to the fallback ticket: an exception caught on the way
\* (the icon's, the meme's) is reported by update_status
RequestNext(t, h) ==
    /\ rev = "v4"
    /\ t \in ReqThreads
    /\ HasNextCall(t)
    /\ status' = IF job[t].pc = "raised" THEN "ERROR print error" ELSE status
    /\ job' = [job EXCEPT ![t] =
                  CallJob(kind[t], job[t].call + 1, h,
                          [job[t] EXCEPT !.updates =
                               IF job[t].pc = "raised" THEN @ + 1 ELSE @])]
    /\ log' = [log EXCEPT ![t] = << >>]
    /\ cancelSnap' = [cancelSnap EXCEPT ![t] = NoSnap]
    /\ UNCHANGED << raster, pace, probe, rev, print_event, print_cancel_flag, printer_port,
                    source_image, display_image, uiResult, handle,
                    cancelSinceStart, kind,
                    requests >>

\* the end of a job: update_status with the outcome of its last print call,
\* and the thread ends; after its fallback ticket print_meme reports only
\* when it has not reported yet, and then an error
RequestStatus(t) ==
    /\ rev = "v4"
    /\ t \in ReqThreads
    /\ job[t].pc \in {"done", "raised"}
    /\ ~HasNextCall(t)
    /\ status' = IF kind[t] = "meme" /\ job[t].call = 2
                 THEN IF job[t].updates = 0 THEN "ERROR print error" ELSE status
                 ELSE IF job[t].pc = "done" THEN "OK printed"
                 ELSE "ERROR print error"
    /\ job' = [job EXCEPT ![t] = IdleJob]
    /\ log' = [log EXCEPT ![t] = << >>]
    /\ cancelSnap' = [cancelSnap EXCEPT ![t] = NoSnap]
    /\ kind' = [kind EXCEPT ![t] = "none"]
    /\ UNCHANGED << raster, pace, probe, rev, print_event, print_cancel_flag, printer_port,
                    source_image, display_image, uiResult, handle,
                    cancelSinceStart,
                    requests >>

\* the state after construction: no image, the worker waiting, and in v2
\* and v4 the first refresh_printer done
InitApp ==
    /\ rev \in {"v1", "v2", "v4"}
    /\ print_event = FALSE
    /\ print_cancel_flag = FALSE
    /\ printer_port \in (IF rev = "v1" THEN {NoPort} ELSE {NoPort, COM})
    /\ source_image = NoImage
    /\ display_image = NoImage
    /\ status = "none"
    /\ uiResult = "none"
    /\ job = [t \in Threads |-> IF t = Worker THEN WaitJob ELSE IdleJob]
    /\ handle = [t \in Threads |-> FALSE]
    /\ log = [t \in Threads |-> << >>]
    /\ cancelSnap = [t \in Threads |-> NoSnap]
    /\ cancelSinceStart = FALSE
    /\ kind = [t \in Threads |-> "none"]
    /\ requests = 0
    /\ pace = NoPace
    /\ probe = NoProbe
    /\ raster = NoRaster

AppOpenImage1 == \E h \in Heights1 : OpenImage1(h)

AppOpenImage2 == \E h \in Heights : OpenImage2(h)

AppDoPrintAndClose == \E h \in Heights \cup {NoImage} : DoPrintAndClose(h)

AppStartRequest == \E t \in ReqThreads, k \in {"text", "test"} : StartRequest(t, k)

AppRequestBegin == \E t \in ReqThreads, h \in Heights : RequestBegin(t, h)

AppRequestStatus == \E t \in ReqThreads : RequestStatus(t)

\* print3r.py and print3r_v2.py: the UI and the worker
InitLegacy == InitApp /\ rev \in {"v1", "v2"}

NextLegacy ==
    \/ AppOpenImage1
    \/ PrintImage1
    \/ WorkerWake1
    \/ V1Open
    \/ V1Loop
    \/ V1Image
    \/ V1Sleep
    \/ V1Feed
    \/ WorkerClear
    \/ AppOpenImage2
    \/ PrintImage2
    \/ RefreshPrinter
    \/ WorkerWake2
    \/ V2Open
    \/ V2Image
    \/ V2Feed
    \/ V2Close
    \/ CancelPrint

SpecLegacy == InitLegacy /\ [][NextLegacy]_vars

\* print3r_v4.py: the Print Image dialog, Cancel, Refresh and the image
\* worker, no other print button being used
InitV4 == InitApp /\ rev = "v4"

NextImage ==
    \/ AppDoPrintAndClose
    \/ RefreshPrinter
    \/ CancelPrint
    \/ WorkerWake4
    \/ Open(Worker)
    \/ LoopCheck(Worker)
    \/ ImageAttempt(Worker)
    \/ ImageRetry(Worker)
    \/ Sleep(Worker)
    \/ SafeFeed(Worker)
    \/ Release(Worker)
    \/ WorkerStatus4
    \/ WorkerClear

SpecImage == InitV4 /\ [][NextImage]_vars

\* print3r_v4.py: the image worker together with the request threads
ThreadsJobStep == \E t \in Threads : JobStep(t)

NextThreads ==
    \/ AppDoPrintAndClose
    \/ RefreshPrinter
    \/ CancelPrint
    \/ WorkerWake4
    \/ WorkerStatus4
    \/ WorkerClear
    \/ AppStartRequest
    \/ AppRequestBegin
    \/ AppRequestStatus
    \/ ThreadsJobStep

SpecThreads == InitV4 /\ [][NextThreads]_vars

----------------------------------------------------------------------------
(* Properties of one print call (checked under SpecHelper) *)

\* C1: a print call (print_image_bandwise or print_image) that has ended,
\* by returning or by raising, holds no open printer: whatever way it left
\* (all bands sent, cancelled, a band failing twice, feeds failing), the
\* device it opened is closed.
DeviceClosedOnExit ==
    \A t \in Threads :
        job[t].pc \in {"idle", "done", "raised"} => ~handle[t]

\* a call that opened the printer and was aborted by a band failing twice
WitnessClosedAfterSendFailed ==
    /\ job[Caller].pc = "raised"
    /\ job[Caller].exc = "SendFailed"
    /\ CountOp(log[Caller], "open") = 1
    /\ CountOp(log[Caller], "feed") = 0
    /\ ~handle[Caller]

\* C2: when the cancel flag is raised while print_image_bandwise is between
\* bands (band k delivered, band k+1 not started, or before band 0), the
\* bands delivered are exactly those delivered at that moment, bands 0..k at
\* offsets 0, band_height, ..; no further band gets a send attempt; and a
\* call that had opened the device still makes its feed_lines feed attempts
\* and releases the device.
CancelBetweenBands ==
    \A t \in Threads :
        (/\ job[t].fn = "bandwise"
         /\ job[t].getter
         /\ cancelSnap[t].set
         /\ ~cancelSnap[t].inflight
         /\ print_cancel_flag)
        => /\ SentOffsets(log[t]) =
                  [i \in 1..cancelSnap[t].n |-> (i - 1) * job[t].band_height]
           /\ job[t].pc \notin {"send", "retry"}
           /\ job[t].exc # "SendFailed"
           /\ job[t].pc = "done" =>
                  /\ CountOp(log[t], "safe_feed") = 1
                  /\ CountOp(log[t], "feed") = Max(0, job[t].feed_lines)
                  /\ log[t][Len(log[t])].op = "close"
                  /\ ~handle[t]

\* cancelled after the first band of an image of several bands, then fed
\* and released
WitnessCancelledAfterFirstBand ==
    /\ job[Caller].pc = "done"
    /\ job[Caller].getter
    /\ cancelSnap[Caller].set
    /\ ~cancelSnap[Caller].inflight
    /\ cancelSnap[Caller].n = 1
    /\ NumBands(job[Caller].H, job[Caller].band_height) >= 3
    /\ SentOffsets(log[Caller]) = << 0 >>
    /\ CountOp(log[Caller], "feed") = 2

\* C7: a band gets at most two send attempts, and when both fail the call
\* ends with the error raised to the caller: the second failure is the last
\* send attempt of the call, so no later band is attempted.
SendAtMostTwice ==
    \A t \in Threads : \A i \in DOMAIN log[t] :
        log[t][i].op = "send" =>
            /\ Cardinality({j \in DOMAIN log[t] :
                   log[t][j].op = "send" /\ log[t][j].y = log[t][i].y}) <= 2
            /\ (/\ i > 1
                /\ log[t][i].r = "fail"
                /\ log[t][i - 1].op = "send"
                /\ log[t][i - 1].r = "fail")
               => /\ job[t].pc = "raised"
                  /\ job[t].exc = "SendFailed"
                  /\ Len(log[t]) = i + 1
                  /\ log[t][i + 1].op = "close"

\* the second band failed twice while a third band was still to come
WitnessSecondBandFailedTwice ==
    /\ job[Caller].exc = "SendFailed"
    /\ SentOffsets(log[Caller]) = << 0 >>
    /\ CountOp(log[Caller], "send") = 3
    /\ NumBands(job[Caller].H, job[Caller].band_height) >= 3

\* C8: a band whose first send attempt fails and whose retry succeeds is
\* delivered exactly once, and the call goes on as after a first-attempt
\* success: the pacing sleep of that band, then the loop head at the next
\* offset.
RetryDeliversOnce ==
    \A t \in Threads : \A i \in DOMAIN log[t] :
        (/\ job[t].fn = "bandwise"
         /\ i < Len(log[t])
         /\ log[t][i].op = "send" /\ log[t][i].r = "fail"
         /\ log[t][i + 1].op = "send" /\ log[t][i + 1].r = "ok")
        => /\ log[t][i + 1].y = log[t][i].y
           /\ Cardinality({j \in DOMAIN log[t] :
                  /\ log[t][j].op = "send"
                  /\ log[t][j].r = "ok"
                  /\ log[t][j].y = log[t][i].y}) = 1
           /\ IF Len(log[t]) = i + 1
              THEN job[t].pc = "sleep" /\ job[t].y = log[t][i].y
              ELSE /\ log[t][i + 2].op = "sleep"
                   /\ log[t][i + 2].y = log[t][i].y
                   /\ Len(log[t]) = i + 2 =>
                          /\ job[t].pc \in {"loop", "send"}
                          /\ job[t].y = log[t][i].y + job[t].band_height

\* the first band needed its retry and the second band was then delivered
WitnessRetryThenNextBand ==
    /\ Len(log[Caller]) >= 5
    /\ log[Caller][2].op = "send" /\ log[Caller][2].r = "fail"
    /\ log[Caller][3].op = "send" /\ log[Caller][3].r = "ok"
    /\ log[Caller][4].op = "sleep"
    /\ log[Caller][5].op = "send" /\ log[Caller][5].r = "ok"
    /\ log[Caller][5].y = job[Caller].band_height

SafeFeedExact ==
    \A t \in Threads :
        /\ job[t].exc # "FeedFailed"
        /\ CountOp(log[t], "feed") = job[t].feeds
        /\ job[t].feedFailed => job[t].feeds > 0
        /\ CountOp(log[t], "safe_feed") > 0 =>
               job[t].pc \in {"feed", "release", "done"}
        /\ job[t].pc = "release" => job[t].feeds = Max(0, job[t].feed_lines)
        /\ job[t].pc = "done" =>
               /\ job[t].feeds = Max(0, job[t].feed_lines)
               /\ log[t][Len(log[t])].op = "close"
               /\ ~handle[t]

\* a call that ended normally although feeds failed
WitnessFeedsFailed ==
    /\ job[Caller].pc = "done"
    /\ job[Caller].feed_lines = 2
    /\ CountOp(log[Caller], "feed") = 2
    /\ job[Caller].feedFailed
    /\ ~handle[Caller]

----------------------------------------------------------------------------
(* Properties of the applications *)

\* C3: an image job of the v4 worker during which cancel_print was not
\* called is not cancelled by an earlier request: when its call of
\* print_image_bandwise returns, all bands of the image have been sent.
NextImageJobNotCancelled ==
    (/\ rev = "v4"
     /\ job[Worker].pc = "done"
     /\ ~cancelSinceStart)
    => Len(SentOffsets(log[Worker])) =
           NumBands(job[Worker].H, job[Worker].band_height)

\* C4: at most one thread of the v4 program holds an open printer device at
\* any time.
OneSessionAtATime ==
    Cardinality({t \in Threads : handle[t]}) <= 1

\* C5: in print3r.py and print3r_v2.py a print request made while
\* print_event is set shows the 'Another print is running' error and changes
\* nothing else: not print_event, not the images, not the worker's job, its
\* device handle or its history, so nothing of the request is left to run.
BusyRequestRejected ==
    [][(print_event /\ (PrintImage1 \/ PrintImage2))
       => /\ uiResult' = "Another print is running"
          /\ UNCHANGED << raster, pace, probe, rev, print_event, print_cancel_flag, printer_port,
                          source_image, display_image, status, job, handle,
                          log, cancelSnap, cancelSinceStart, kind >>]_vars

\* a request was rejected while the worker was in the middle of a job
WitnessRejectedWhilePrinting ==
    /\ rev \in {"v1", "v2"}
    /\ uiResult = "Another print is running"
    /\ print_event
    /\ handle[Worker]
    /\ CountOp(log[Worker], "send") >= 1

\* C6: in print3r_v4 an image print request made while the worker holds the
\* printer for an image job is rejected as busy and leaves print_event,
\* source_image and display_image unchanged.
BusyImageRequestRejected ==
    [][(/\ print_event
        /\ handle[Worker]
        /\ \E h \in Heights : DoPrintAndClose(h))
       => /\ uiResult' = "Another print is running"
          /\ UNCHANGED << print_event, source_image, display_image >>]_vars

----------------------------------------------------------------------------
(* print3r_v2.py and print3r_v4.py: the image worker under a fair scheduler *)

InitWorkers == InitApp /\ rev \in {"v2", "v4"}

\* the steps of the background thread running print_thread_function
WorkerStep ==
    \/ WorkerWake2
    \/ V2Open
    \/ V2Image
    \/ V2Feed
    \/ V2Close
    \/ WorkerWake4
    \/ Open(Worker)
    \/ LoopCheck(Worker)
    \/ ImageAttempt(Worker)
    \/ ImageRetry(Worker)
    \/ Sleep(Worker)
    \/ SafeFeed(Worker)
    \/ Release(Worker)
    \/ WorkerStatus4
    \/ WorkerClear

NextWorkers ==
    \/ AppOpenImage2
    \/ PrintImage2
    \/ AppDoPrintAndClose
    \/ RefreshPrinter
    \/ CancelPrint
    \/ WorkerStep

\* the worker is a thread of its own: the interpreter keeps scheduling it,
\* event.wait(1) returns within a second, and every device call returns or
\* raises, so a step the worker can take is eventually taken
SpecWorkers == InitWorkers /\ [][NextWorkers]_vars /\ WF_vars(WorkerStep)

\* the worker is back in event.wait with print_event cleared
WorkerWaiting == job[Worker].pc = "wait" /\ ~print_event

\* C11: in print3r_v2 and print3r_v4 the worker thread never ends; whenever
\* print_event is set it takes up the job, and whatever the job's outcome
\* (printed, cancelled, no port known, open failure, send failure after the
\* retry, failed feeds) it clears print_event and waits again, so the next
\* request that sets print_event is taken up in turn.
WorkerReturnsToWaiting ==
    /\ [](job[Worker].pc # "dead")
    /\ (print_event /\ job[Worker].pc = "wait") ~> (job[Worker].pc # "wait")
    /\ \A e \in {"none", "NotConnected", "OpenFailed", "SendFailed"} :
           (job[Worker].pc # "wait" /\ job[Worker].exc = e) ~> WorkerWaiting
    /\ print_event ~> WorkerWaiting

\* an image job failed, and the job of a later request has printed a band
WitnessJobAfterFailedJob ==
    /\ rev = "v4"
    /\ status = "ERROR Image print error"
    /\ job[Worker].pc = "done"
    /\ Len(SentOffsets(log[Worker])) >= 1

----------------------------------------------------------------------------
(* print3r.py: the worker thread *)

\* the steps of the background thread running printThreadFcn
WorkerStep1 ==
    \/ WorkerWake1
    \/ V1Open
    \/ V1Loop
    \/ V1Image
    \/ V1Sleep
    \/ V1Feed
    \/ (rev = "v1" /\ WorkerClear)

\* C12: in print3r.py, as long as print_event is set the worker thread is
\* alive and has a step to take on its way to evt.clear(): no outcome of a
\* job, a failed open of the port or a failed image send included, leaves
\* print_event set with nobody left to clear it.
WorkerAlive1 ==
    (rev = "v1" /\ print_event)
    => /\ job[Worker].pc # "dead"
       /\ ENABLED WorkerStep1

----------------------------------------------------------------------------
(* The bands of print_image_bandwise (checked under SpecHelper) *)

\* the bands a call has delivered, in delivery order
SentBands(t) == SelectSeq(log[t], LAMBDA e : e.op = "send" /\ e.r = "ok")

\* the call has run its band loop to the end: it returned, was not stopped
\* by the cancel flag, and no band failed
Uncancelled(t) ==
    /\ job[t].fn = "bandwise"
    /\ job[t].pc = "done"
    /\ job[t].getter => ~print_cancel_flag

\* C13: an uncancelled call of print_image_bandwise without send failure,
\* on an image of N >= 1 rows with band_height H >= 1, delivers exactly
\* ceil(N / H) bands; every band but the last has H rows, the last has
\* N - H * floor((N - 1) / H) rows, and an image of N <= H rows is one band
\* of N rows.
BandCountAndHeights ==
    \A t \in Threads :
        Uncancelled(t) =>
            LET b == SentBands(t)
                N == job[t].H
                H == job[t].band_height
            IN  /\ Len(b) * H >= N
                /\ (Len(b) - 1) * H < N
                /\ \A i \in 1..(Len(b) - 1) : b[i].h = H
                /\ b[Len(b)].h = N - H * ((N - 1) \div H)
                /\ N <= H => (Len(b) = 1 /\ b[1].h = N)

\* five rows in bands of two: three bands, the last of one row
WitnessThreeBandsLastShort ==
    /\ Uncancelled(Caller)
    /\ job[Caller].H = 5
    /\ job[Caller].band_height = 2
    /\ Len(SentBands(Caller)) = 3
    /\ SentBands(Caller)[3].h = 1

\* the rows of the prepared image a sequence of bands holds, band after band
RECURSIVE RowsOf(_)
RowsOf(b) ==
    IF b = << >> THEN << >>
    ELSE [i \in 1..Head(b).h |-> Head(b).y + i - 1] \o RowsOf(Tail(b))

\* C14: the bands of an uncancelled call without send failure are
\* contiguous and do not overlap: the first starts at row 0, each next one
\* starts at the row after the previous band's last, the last one ends at
\* row N - 1, so the bands put one after the other are rows 0..N-1 of the
\* prepared image, each once and in order.
BandsReconstructImage ==
    \A t \in Threads :
        Uncancelled(t) =>
            LET b == SentBands(t)
            IN  /\ b[1].y = 0
                /\ \A i \in 1..(Len(b) - 1) : b[i + 1].y = b[i].y + b[i].h
                /\ b[Len(b)].y + b[Len(b)].h = job[t].H
                /\ RowsOf(b) = [i \in 1..job[t].H |-> i - 1]

\* four rows in bands of three, the first band delivered by its retry
WitnessTwoBandsCoverFourRows ==
    /\ Uncancelled(Caller)
    /\ job[Caller].H = 4
    /\ job[Caller].band_height = 3
    /\ RowsOf(SentBands(Caller)) = << 0, 1, 2, 3 >>
    /\ CountOp(log[Caller], "send") = 3

----------------------------------------------------------------------------
(* The slices of print3r.py (checked under SpecLegacy) *)

\* the worker of print3r.py has sliced globalDisplayImage for its job
Sliced1 == rev = "v1" /\ job[Worker].fn = "v1"

\* C15: image_slicer_and_scaler cuts an image of N >= 1 rows into exactly
\* ceil(N / 20) slices, each of at most 20 rows and all but possibly the
\* last of exactly 20 rows.
SlicerCeilSlices ==
    Sliced1 =>
        LET N == job[Worker].H
            s == image_slicer_and_scaler(N)
        IN  /\ Len(s) = (N + CHUNK_LINES - 1) \div CHUNK_LINES
            /\ \A i \in DOMAIN s : s[i].lower - s[i].upper <= CHUNK_LINES
            /\ \A i \in 1..(Len(s) - 1) : s[i].lower - s[i].upper = CHUNK_LINES

\* C16: the slices image_slicer_and_scaler returns for an image of N >= 1
\* rows are contiguous, do not overlap and cover rows 0..N-1 in order; an
\* image of N <= 20 rows is one slice, the whole image.
SlicesReconstructImage ==
    Sliced1 =>
        LET N == job[Worker].H
            s == image_slicer_and_scaler(N)
        IN  /\ Len(s) >= 1
            /\ s[1].upper = 0
            /\ \A i \in 1..(Len(s) - 1) : s[i + 1].upper = s[i].lower
            /\ s[Len(s)].lower = N
            /\ N <= CHUNK_LINES => Len(s) = 1

----------------------------------------------------------------------------
(* The pacing arithmetic of the band loops, on its own *)

WIDTH_PIXELS == 384

MaxWidth == 2

\* base_sleep and dark_bonus, in milliseconds; the worker passes 25 and 200
BaseSleeps == {0, 25}

DarkBonuses == {0, 200}

\* a coverage whose total is the nominal band, not the band that was cut
Coverage4NominalBand(black_pixels, w, h) ==
    LET total == IF w # 0 /\ pace.band_height # 0 THEN w * pace.band_height ELSE 1
    IN  FracMin(Frac(1, 1), FracMax(Frac(0, 1), Frac(black_pixels, total)))

\* print_image_bandwise: total = band.width * band.height (1 if either is
\* 0), coverage = min(1.0, max(0.0, black_pixels / float(total)))
Coverage4(black_pixels, w, h) ==
    LET total == IF w # 0 /\ h # 0 THEN w * h ELSE 1
    IN  FracMin(Frac(1, 1), FracMax(Frac(0, 1), Frac(black_pixels, total)))

\* a pause that shrinks as the band gets darker
Delay4Inverted(base_sleep, dark_bonus, coverage) ==
    Frac(base_sleep * coverage.d + (coverage.d - coverage.n) * dark_bonus,
         coverage.d)

\* print_image_bandwise: time.sleep(base_sleep + coverage * dark_bonus)
Delay4(base_sleep, dark_bonus, coverage) ==
    Frac(base_sleep * coverage.d + coverage.n * dark_bonus, coverage.d)

\* printThreadFcn: ratio = countBlack(slice)/(384*20)
Ratio1(blacks) == Frac(blacks, WIDTH_PIXELS * CHUNK_LINES)

\* printThreadFcn: ratio = 1.3 * max(0, ratio - 0.5), the time slept
Sleep1(ratio) ==
    LET over == FracMax(Frac(0, 1), Frac(2 * ratio.n - ratio.d, 2 * ratio.d))
    IN  Frac(13 * over.n, 10 * over.d)

\* black-pixel counts tried for a slice of print3r.py, 384 pixels wide
BlackCounts1(rows) ==
    LET total == WIDTH_PIXELS * rows
    IN  {0, 1, total \div 2, total - 1, total}

\* one pass of the body of print_image_bandwise's loop, as far as pacing
\* goes: the band is cut at y, black is hist[0] of the band, then
\* y += band_height
PaceBand4 ==
    /\ pace.fn = "bandwise"
    /\ pace.y < pace.N
    /\ LET rows == BandRowsAt(pace.N, pace.band_height, pace.y)
       IN  \E black \in 0..(pace.W * rows) :
              LET coverage == Coverage4(black, pace.W, rows)
              IN  pace' = [pace EXCEPT
                              !.rows = rows,
                              !.black = black,
                              !.coverage = coverage,
                              !.delay = Delay4(pace.base_sleep, pace.dark_bonus,
                                               coverage),
                              !.y = pace.y + pace.band_height,
                              !.bands = pace.bands + 1]
    /\ UNCHANGED << raster, probe, rev, print_event, print_cancel_flag, printer_port,
                    source_image, display_image, status, uiResult, job,
                    handle, log, cancelSnap, cancelSinceStart, kind,
                    requests >>

\* one pass of the body of printThreadFcn's loop over the slices, as far
\* as pacing goes
PaceSlice1 ==
    /\ pace.fn = "v1"
    /\ pace.bands < Len(image_slicer_and_scaler(pace.N))
    /\ LET box == image_slicer_and_scaler(pace.N)[pace.bands + 1]
           rows == box.lower - box.upper
       IN  \E black \in BlackCounts1(rows) :
              pace' = [pace EXCEPT
                          !.rows = rows,
                          !.black = black,
                          !.coverage = Ratio1(black),
                          !.delay = Sleep1(Ratio1(black)),
                          !.y = box.upper + CHUNK_LINES,
                          !.bands = pace.bands + 1]
    /\ UNCHANGED << raster, probe, rev, print_event, print_cancel_flag, printer_port,
                    source_image, display_image, status, uiResult, job,
                    handle, log, cancelSnap, cancelSinceStart, kind,
                    requests >>

\* a band loop about to start: print_image_bandwise on an image W wide and
\* N high, or printThreadFcn on an image of 384 by N
InitPacer ==
    /\ \E f \in {"bandwise", "v1"} :
          /\ rev = (IF f = "v1" THEN "v1" ELSE "helper")
          /\ \E w \in 1..MaxWidth, h \in 1..MaxHeight, bhh \in 1..MaxBandHeight,
                h1 \in Heights1, bs \in BaseSleeps, db \in DarkBonuses :
                pace = IF f = "v1"
                       THEN [NoPace EXCEPT !.fn = f, !.W = WIDTH_PIXELS,
                                           !.N = h1, !.band_height = CHUNK_LINES]
                       ELSE [NoPace EXCEPT !.fn = f, !.W = w, !.N = h,
                                           !.band_height = bhh,
                                           !.base_sleep = bs, !.dark_bonus = db]
    /\ print_event = FALSE
    /\ print_cancel_flag = FALSE
    /\ printer_port = NoPort
    /\ source_image = NoImage
    /\ display_image = NoImage
    /\ status = "none"
    /\ uiResult = "none"
    /\ job = [t \in Threads |-> IdleJob]
    /\ handle = [t \in Threads |-> FALSE]
    /\ log = [t \in Threads |-> << >>]
    /\ cancelSnap = [t \in Threads |-> NoSnap]
    /\ cancelSinceStart = FALSE
    /\ kind = [t \in Threads |-> "none"]
    /\ requests = 0
    /\ probe = NoProbe
    /\ raster = NoRaster

NextPacer ==
    \/ PaceBand4
    \/ PaceSlice1

SpecPacer == InitPacer /\ [][NextPacer]_vars

\* a band of print_image_bandwise has been paced
Paced4 == pace.fn = "bandwise" /\ pace.bands > 0

\* C17: the coverage print_image_bandwise computes for a band is the band's
\* black pixels divided by band width times band height, also for a last
\* band shorter than band_height; it lies in [0, 1]; and for a band of the
\* same dimensions it does not decrease when the black-pixel count grows.
CoverageIsBlackShare ==
    Paced4 =>
        /\ FracEq(pace.coverage, Frac(pace.black, pace.W * pace.rows))
        /\ FracLe(Frac(0, 1), pace.coverage)
        /\ FracLe(pace.coverage, Frac(1, 1))
        /\ \A b1, b2 \in 0..(pace.W * pace.rows) :
               b1 <= b2 => FracLe(Coverage4(b1, pace.W, pace.rows),
                                  Coverage4(b2, pace.W, pace.rows))

\* an all-black last band shorter than band_height has coverage 1
WitnessShortBlackBand ==
    /\ Paced4
    /\ pace.bands >= 2
    /\ pace.rows < pace.band_height
    /\ pace.W = 2
    /\ pace.black = pace.W * pace.rows
    /\ FracEq(pace.coverage, Frac(1, 1))

\* C18: the ratio printThreadFcn computes for a slice is the slice's black
\* pixels divided by slice width times slice height, and lies in [0, 1].
Ratio1IsBlackShare ==
    (pace.fn = "v1" /\ pace.bands > 0) =>
        /\ FracEq(pace.coverage, Frac(pace.black, pace.W * pace.rows))
        /\ FracLe(Frac(0, 1), pace.coverage)
        /\ FracLe(pace.coverage, Frac(1, 1))

\* C19: the pause after a band is base_sleep + coverage * dark_bonus; for
\* fixed base_sleep >= 0 and dark_bonus >= 0 it does not decrease when the
\* band's black-pixel count grows, it is base_sleep for an all-white band
\* and base_sleep + dark_bonus for an all-black band.
DelayIsBasePlusDarkShare ==
    Paced4 =>
        /\ FracEq(pace.delay,
                  Frac(pace.base_sleep * (pace.W * pace.rows)
                          + pace.black * pace.dark_bonus,
                       pace.W * pace.rows))
        /\ \A b1, b2 \in 0..(pace.W * pace.rows) :
               b1 <= b2 =>
                   FracLe(Delay4(pace.base_sleep, pace.dark_bonus,
                                 Coverage4(b1, pace.W, pace.rows)),
                          Delay4(pace.base_sleep, pace.dark_bonus,
                                 Coverage4(b2, pace.W, pace.rows)))
        /\ pace.black = 0 => FracEq(pace.delay, Frac(pace.base_sleep, 1))
        /\ pace.black = pace.W * pace.rows =>
               FracEq(pace.delay, Frac(pace.base_sleep + pace.dark_bonus, 1))

\* the worker's settings: an all-black band is followed by 225 ms, after a
\* first band that was followed by less
WitnessBlackBandFullPause ==
    /\ Paced4
    /\ pace.bands = 2
    /\ pace.base_sleep = 25
    /\ pace.dark_bonus = 200
    /\ pace.black = pace.W * pace.rows
    /\ FracEq(pace.delay, Frac(225, 1))

----------------------------------------------------------------------------
(* print3r_v4.py: discovery next to the image worker *)

MaxPorts == 2

\* the device names serial.tools.list_ports.comports() lists, in its order
PortNames == << "COM6", "COM7", "COM8", "COM9" >>

\* the Tk main loop runs one handler at a time: no discovery is under way
UiIdle == probe.who = "none"

\* refresh_printer ("refresh") or menu_detect_com_ports ("menu") begins:
\* comports() lists n ports, and the loop over them starts
DiscoveryStart(w) ==
    /\ rev \in (IF w = "menu" THEN {"v4"} ELSE {"v2", "v4"})
    /\ UiIdle
    /\ \E n \in 0..MaxPorts :
          probe' = [who |-> w, n |-> n, i |-> 1, open |-> FALSE,
                    guess |-> NoPort, opened |-> << >>,
                    held |-> TRUE]
    /\ UNCHANGED << raster, pace, rev, print_event, print_cancel_flag, printer_port,
                    source_image, display_image, status, uiResult, job,
                    handle, log, cancelSnap, cancelSinceStart, kind,
                    requests >>

\* detect_printer / guess_printer_port: with ThermalPrinter(port=...) on
\* the next port; it opens, or raises and the loop continues
ProbeOpen ==
    /\ probe.who # "none"
    /\ ~probe.open
    /\ probe.i <= probe.n
    /\ \/ probe' = [probe EXCEPT !.open = TRUE,
                                  !.opened = Append(probe.opened, probe.i)]
       \/ probe' = [probe EXCEPT !.i = probe.i + 1,
                                  !.held = @ /\ \E t \in Threads : handle[t]]
    /\ UNCHANGED << raster, pace, rev, print_event, print_cancel_flag, printer_port,
                    source_image, display_image, status, uiResult, job,
                    handle, log, cancelSnap, cancelSinceStart, kind,
                    requests >>

\* the with-block of a probe ends and closes the probing handle:
\* guess_printer_port and the detect_printer of print3r_v2.py return the
\* port; the detect_printer of print3r_v4.py returns it when identify()
\* answers "ThermalPrinter" or the printer has no identify, and goes on to
\* the next port when identify() raises or answers otherwise
ProbeClose ==
    /\ probe.open
    /\ \E ident \in {"confirmed", "absent", "other"} :
          IF probe.who = "menu" \/ rev = "v2" \/ ident # "other"
          THEN probe' = [probe EXCEPT !.open = FALSE,
                                      !.guess = PortNames[probe.i],
                                      !.i = probe.n + 1]
          ELSE probe' = [probe EXCEPT !.open = FALSE, !.i = probe.i + 1]
    /\ UNCHANGED << raster, pace, rev, print_event, print_cancel_flag, printer_port,
                    source_image, display_image, status, uiResult, job,
                    handle, log, cancelSnap, cancelSinceStart, kind,
                    requests >>

\* the loop over the ports is over: refresh_printer stores what
\* detect_printer returned, menu_detect_com_ports shows its message box
DiscoveryEnd ==
    /\ probe.who # "none"
    /\ ~probe.open
    /\ probe.i > probe.n
    /\ IF probe.who = "refresh"
       THEN /\ printer_port' = probe.guess
            /\ UNCHANGED uiResult
       ELSE /\ uiResult' = IF probe.n = 0 THEN "No serial ports found"
                           ELSE "COM Ports"
            /\ UNCHANGED printer_port
    /\ probe' = NoProbe
    /\ UNCHANGED << raster, pace, rev, print_event, print_cancel_flag,
                    source_image, display_image, status, job,
                    handle, log, cancelSnap, cancelSinceStart, kind,
                    requests >>

DiscRefreshPrinter == DiscoveryStart("refresh")

DiscMenuDetectComPorts == DiscoveryStart("menu")

DiscDoPrintAndClose == UiIdle /\ AppDoPrintAndClose

DiscCancelPrint == UiIdle /\ CancelPrint

NextDiscovery ==
    \/ DiscRefreshPrinter
    \/ DiscMenuDetectComPorts
    \/ ProbeOpen
    \/ ProbeClose
    \/ DiscoveryEnd
    \/ DiscDoPrintAndClose
    \/ DiscCancelPrint
    \/ WorkerWake4
    \/ Open(Worker)
    \/ LoopCheck(Worker)
    \/ ImageAttempt(Worker)
    \/ ImageRetry(Worker)
    \/ Sleep(Worker)
    \/ SafeFeed(Worker)
    \/ Release(Worker)
    \/ WorkerStatus4
    \/ WorkerClear

SpecDiscovery == InitV4 /\ [][NextDiscovery]_vars

\* C20: in print3r_v4 discovery opens a probing handle only in states in
\* which no print job holds the printer device: neither refresh_printer /
\* detect_printer nor menu_detect_com_ports / guess_printer_port opens a
\* port while a job is between opening and releasing the device.
NoProbeWhileSessionOpen ==
    [][(~probe.open /\ probe'.open) => \A t \in Threads : ~handle[t]]_vars

----------------------------------------------------------------------------
(* detect_printer of print3r_v2.py and print3r_v4.py, on its own *)

InitDetect == InitApp /\ rev \in {"v2", "v4"}

DetectRefreshPrinter == DiscoveryStart("refresh")

DetectMenuDetectComPorts == DiscoveryStart("menu")

NextDetect ==
    \/ DetectRefreshPrinter
    \/ DetectMenuDetectComPorts
    \/ ProbeOpen
    \/ ProbeClose
    \/ DiscoveryEnd

SpecDetect == InitDetect /\ [][NextDetect]_vars

\* detect_printer has left its loop over the ports; probe.guess is what it
\* returns to refresh_printer
DetectReturned == probe.who = "refresh" /\ probe.i > probe.n

\* C21: when detect_printer (print3r_v2, print3r_v4) returns, every probing
\* handle it opened is closed; it returns None when no port opened, the
\* case of no ports included; and it returns the port when exactly one
\* port opened.
DetectNoneOrTheOnePort ==
    DetectReturned =>
        /\ ~probe.open
        /\ probe.opened = << >> => probe.guess = NoPort
        /\ Len(probe.opened) = 1 => probe.guess = PortNames[probe.opened[1]]

\* C22: the detect_printer of print3r_v4 returns the first port, in the
\* order of the enumeration, that opened, whether or not an identify query
\* confirmed it; ports that did not open are skipped.
DetectFirstOpenedPort ==
    (rev = "v4" /\ DetectReturned /\ probe.opened # << >>)
    => probe.guess = PortNames[Head(probe.opened)]

----------------------------------------------------------------------------
(* What the image worker of print3r_v4.py reports (checked under SpecImage) *)

\* the worker's job ended with the printer never opened
NotStarted4 ==
    /\ rev = "v4"
    /\ job[Worker].pc = "clear"
    /\ job[Worker].exc \in {"NotConnected", "OpenFailed"}

\* C23: every image job of the v4 worker, whatever its outcome (printed,
\* cancelled, no port known, open failure, send failure), has made exactly
\* one update_status call when the worker clears print_event.
OneStatusPerJob ==
    [][(rev = "v4" /\ print_event /\ ~print_event')
       => job[Worker].updates = 1]_vars

\* C24: the status reported for an image job that the cancel flag stopped
\* before all bands were sent differs from the status of a fully printed
\* job: it is not 'Image printed'.
CancelledJobReportedAsSuch ==
    (/\ rev = "v4"
     /\ job[Worker].pc = "clear"
     /\ job[Worker].fn = "bandwise"
     /\ job[Worker].exc = "none"
     /\ Len(SentOffsets(log[Worker])) <
            NumBands(job[Worker].H, job[Worker].band_height))
    => status # "OK Image printed"

\* C25: an image job of the v4 worker that found no port known, or whose
\* open of the device raised, has sent no band and no feed to any device,
\* and is reported with the ERROR status, not as a print.
NotStartedJobReportedAsError ==
    NotStarted4 =>
        /\ CountOp(log[Worker], "send") = 0
        /\ CountOp(log[Worker], "feed") = 0
        /\ ~handle[Worker]
        /\ status = "ERROR Image print error"

----------------------------------------------------------------------------
(* Cancelling while a band is being sent (checked under SpecHelper) *)

\* send attempts a call made for the band at offset yy
AttemptsAt(s, yy) ==
    Cardinality({i \in DOMAIN s : s[i].op = "send" /\ s[i].y = yy})

\* C26: print_image_bandwise looks at the cancel flag only at the head of a
\* band iteration. Once the flag is set and stays set, at most one further
\* band is delivered, and only if it was being sent at that moment; that
\* band is carried through: a failed first attempt is still retried, and a
\* delivered band is followed by its pacing sleep before the loop is left.
CancelCompletesBandInFlight ==
    \A t \in Threads :
        (/\ job[t].fn = "bandwise"
         /\ job[t].getter
         /\ cancelSnap[t].set
         /\ print_cancel_flag)
        => LET sent == Len(SentOffsets(log[t]))
               n == cancelSnap[t].n
               yy == n * job[t].band_height
           IN  /\ sent <= n + (IF cancelSnap[t].inflight THEN 1 ELSE 0)
               /\ sent >= n
               /\ AttemptsAt(log[t], yy + job[t].band_height) = 0
               /\ (cancelSnap[t].inflight /\ job[t].pc \notin {"send", "retry"})
                  => IF job[t].exc = "SendFailed"
                     THEN sent = n /\ AttemptsAt(log[t], yy) = 2
                     ELSE sent = n + 1
               /\ job[t].pc \in {"feed", "release", "done"}
                  => CountOp(log[t], "sleep") = sent

\* the flag was raised while band 1 of three was being sent; its first
\* attempt then failed, the retry delivered it, the sleep followed, and the
\* call ended with band 2 never attempted
WitnessCancelDuringSecondBand ==
    /\ job[Caller].pc = "done"
    /\ job[Caller].getter
    /\ print_cancel_flag
    /\ cancelSnap[Caller].set
    /\ cancelSnap[Caller].inflight
    /\ cancelSnap[Caller].n = 1
    /\ NumBands(job[Caller].H, job[Caller].band_height) = 3
    /\ Len(SentOffsets(log[Caller])) = 2
    /\ AttemptsAt(log[Caller], job[Caller].band_height) = 2
    /\ CountOp(log[Caller], "sleep") = 2

----------------------------------------------------------------------------
(* print3r_v4.py: the jobs of one request thread, one after another, with
   Cancel and Refresh *)

JobKinds == {"text", "calendar", "weather", "meme", "joke", "test"}

JobsStartRequest == \E k \in JobKinds : StartRequest(Caller, k)

JobsRequestBegin == \E h \in Heights : RequestBegin(Caller, h)

JobsRequestFetchFails == \E h \in Heights : RequestFetchFails(Caller, h)

JobsRequestNoMeme == \E h \in Heights : RequestNoMeme(Caller, h)

JobsRequestNext == \E h \in Heights : RequestNext(Caller, h)

JobsJobStep == JobStep(Caller)

JobsRequestStatus == RequestStatus(Caller)

NextJobs ==
    \/ JobsStartRequest
    \/ JobsRequestBegin
    \/ JobsRequestFetchFails
    \/ JobsRequestNoMeme
    \/ JobsRequestNext
    \/ JobsJobStep
    \/ JobsRequestStatus
    \/ CancelPrint
    \/ RefreshPrinter

SpecJobs == InitV4 /\ [][NextJobs]_vars

\* C27: print_today_calendar, print_weather, print_meme, print_joke and
\* _print_text_job clear print_cancel_flag before their first cancel check:
\* while such a job runs the flag is set only if cancel_print was called
\* after the job began, whatever the flag was before; so a print call of
\* the job that returned with no cancel_print since the job began has
\* delivered every band.
JobClearsEarlierCancel ==
    \A t \in ReqThreads :
        (/\ kind[t] \in ClearsFlag
         /\ job[t].pc \notin {"idle", "start"}
         /\ ~job[t].cancelled)
        => /\ ~print_cancel_flag
           /\ (job[t].pc = "done" /\ job[t].fn = "bandwise")
              => Len(SentOffsets(log[t])) =
                    NumBands(job[t].H, job[t].band_height)

\* a weather job that began with the flag still set from an earlier cancel
\* and has delivered both bands of its last ticket
WitnessWeatherAfterEarlierCancel ==
    /\ kind[Caller] = "weather"
    /\ job[Caller].pending
    /\ ~job[Caller].cancelled
    /\ job[Caller].call = Len(Calls("weather"))
    /\ job[Caller].pc = "done"
    /\ job[Caller].getter
    /\ Len(SentOffsets(log[Caller])) = 2

----------------------------------------------------------------------------
(* Size of one image command *)

\* C28: every printer.image command of print3r_v2.py and print3r_v4.py
\* carries at most one band of rows, 64 in print3r_v4.py: no image taller
\* than a band goes out as a single command.
ImageCommandsAtMostOneBand ==
    \A t \in Threads :
        \A i \in DOMAIN log[t] :
            (rev \in {"v2", "v4"} /\ log[t][i].op = "send")
            => log[t][i].h <= BAND_HEIGHT

----------------------------------------------------------------------------
(* Preparing an image for output: size, rotation, bands *)

MaxRows == 3

UPSIDE_DOWN_MODE == TRUE

\* widths of the source images: the printer's width, twice that, and one
\* pixel more
SourceWidths == {WIDTH_PIXELS, 2 * WIDTH_PIXELS, 2 * WIDTH_PIXELS + 1}

\* rasters of n rows; a row stands for the WIDTH_PIXELS pixels of a line,
\* MaxWidth of them being told apart
Rasters(n) == [1..n -> [1..MaxWidth -> {0, 1}]]

\* a rotation that turns the rows over but leaves each row as it is
Rotate180KeepsRows(m) == [i \in 1..Len(m) |-> m[Len(m) + 1 - i]]

\* Image.rotate(180, expand=True): pixel (x, y) goes to (W-1-x, H-1-y)
Rotate180(m) ==
    [i \in 1..Len(m) |->
        [j \in 1..Len(m[Len(m) + 1 - i]) |->
            m[Len(m) + 1 - i][Len(m[Len(m) + 1 - i]) + 1 - j]]]

\* new_size[1] of print3r_v4.py _prep_image_for_output; an image that is
\* WIDTH_PIXELS wide is not resized
PrepHeight4(w, h) ==
    IF w # WIDTH_PIXELS THEN Max(1, Round(h * WIDTH_PIXELS, w)) ELSE h

\* new_size[1] of print3r_v2.py process_image
ProcessHeight2(w, h) == Round(h * WIDTH_PIXELS, w)

InitRaster ==
    /\ InitApp
    /\ rev \in {"v2", "v4"}

\* an image arrives: any size within the bounds, 1-bit or not, and a band
\* height for its print call
RasterSource ==
    /\ raster.fn = "none"
    /\ \E w \in SourceWidths, h \in 1..MaxRows, b \in BOOLEAN,
          bhh \in 1..MaxBandHeight :
          \E m \in (IF w = WIDTH_PIXELS /\ b THEN Rasters(h) ELSE {<< >>}) :
             raster' = [NoRaster EXCEPT !.fn = "source", !.w = w, !.h = h,
                                        !.one_bit = b, !.src = m,
                                        !.band_height = bhh]
    /\ UNCHANGED << pace, probe, rev, print_event, print_cancel_flag, printer_port,
                    source_image, display_image, status, uiResult, job,
                    handle, log, cancelSnap, cancelSinceStart, kind,
                    requests >>

\* print3r_v4.py _prep_image_for_output: resize unless the width is
\* WIDTH_PIXELS, convert unless the mode is "1" (what resampling and
\* dithering make of the pixels is any raster of the new size), rotate
Prep4 ==
    /\ rev = "v4"
    /\ raster.fn = "source"
    /\ LET hh == PrepHeight4(raster.w, raster.h)
       IN  \E m \in (IF raster.w = WIDTH_PIXELS /\ raster.one_bit
                      THEN {raster.src} ELSE Rasters(hh)) :
              raster' = [raster EXCEPT !.fn = "prep4", !.W = WIDTH_PIXELS,
                                       !.H = hh, !.pre = m,
                                       !.img = IF UPSIDE_DOWN_MODE
                                               THEN Rotate180(m) ELSE m]
    /\ UNCHANGED << pace, probe, rev, print_event, print_cancel_flag, printer_port,
                    source_image, display_image, status, uiResult, job,
                    handle, log, cancelSnap, cancelSinceStart, kind,
                    requests >>

\* print3r_v4.py print_image_bandwise, one iteration of an uncancelled job
\* whose send succeeds: the crop of rows y .. min(H, y + band_height) - 1
\* is delivered
Band4 ==
    /\ raster.fn \in {"prep4", "band4"}
    /\ raster.y < raster.H
    /\ raster' = [raster EXCEPT
                     !.fn = "band4",
                     !.sent = @ \o SubSeq(raster.img, raster.y + 1,
                                          Min(raster.H,
                                              raster.y + raster.band_height)),
                     !.y = @ + raster.band_height]
    /\ UNCHANGED << pace, probe, rev, print_event, print_cancel_flag, printer_port,
                    source_image, display_image, status, uiResult, job,
                    handle, log, cancelSnap, cancelSinceStart, kind,
                    requests >>

\* print3r_v2.py process_image: the image is always resized; what
\* Image.resize does with a height of 0 depends on the library: it raises
\* or returns an image without rows
ProcessImage2 ==
    /\ rev = "v2"
    /\ raster.fn = "source"
    /\ LET hh == ProcessHeight2(raster.w, raster.h)
       IN  \/ raster' = [raster EXCEPT !.fn = "process2", !.W = WIDTH_PIXELS,
                                       !.H = hh]
           \/ /\ hh = 0
              /\ raster' = [raster EXCEPT !.fn = "raised2"]
    /\ UNCHANGED << pace, probe, rev, print_event, print_cancel_flag, printer_port,
                    source_image, display_image, status, uiResult, job,
                    handle, log, cancelSnap, cancelSinceStart, kind,
                    requests >>

\* the next image
RasterDone ==
    /\ \/ raster.fn \in {"process2", "raised2"}
       \/ raster.fn \in {"prep4", "band4"} /\ raster.y >= raster.H
    /\ raster' = NoRaster
    /\ UNCHANGED << pace, probe, rev, print_event, print_cancel_flag, printer_port,
                    source_image, display_image, status, uiResult, job,
                    handle, log, cancelSnap, cancelSinceStart, kind,
                    requests >>

NextRaster ==
    \/ RasterSource
    \/ Prep4
    \/ Band4
    \/ ProcessImage2
    \/ RasterDone

SpecRaster == InitRaster /\ [][NextRaster]_vars

\* a row read from right to left
Mirrored(row) == [j \in 1..Len(row) |-> row[Len(row) + 1 - j]]

\* C29: with UPSIDE_DOWN_MODE on, the rows the bands of an uncancelled
\* print_image_bandwise job deliver are, in order of delivery, the rows of
\* the prepared raster from the last to the first, each read from right to
\* left (the raster is rotated once, as a whole, before it is cut): the
\* first band holds the last rows, and after the last band every row has
\* been delivered once.
BandsDeliverRotatedRaster ==
    (rev = "v4" /\ raster.fn = "band4")
    => /\ \A i \in 1..Len(raster.sent) :
              raster.sent[i] = Mirrored(raster.pre[raster.H + 1 - i])
       /\ Len(raster.sent) = Min(raster.H, raster.y)
       /\ (raster.w = WIDTH_PIXELS /\ raster.one_bit)
          => raster.pre = raster.src

\* a 1-bit source of full width and three rows, the first unlike the last
\* and not symmetric, printed in two bands: its first row came out last,
\* mirrored
WitnessFirstRowLast ==
    /\ rev = "v4"
    /\ raster.fn = "band4"
    /\ raster.w = WIDTH_PIXELS
    /\ raster.one_bit
    /\ raster.H = MaxRows
    /\ raster.band_height = 2
    /\ raster.y >= raster.H
    /\ raster.src[1] # raster.src[raster.H]
    /\ raster.src[1] # Mirrored(raster.src[1])
    /\ raster.sent[raster.H] = Mirrored(raster.src[1])

\* C30: for a source image of width w and height h, both at least 1, the
\* raster made for printing by _prep_image_for_output (print3r_v4.py) and
\* by process_image (print3r_v2.py) is 384 wide and max(1, round(h * 384
\* / w)) high.
RasterSize ==
    raster.fn \in {"prep4", "process2", "raised2"}
    => /\ raster.fn # "raised2"
       /\ raster.W = WIDTH_PIXELS
       /\ raster.H = Max(1, Round(raster.h * WIDTH_PIXELS, raster.w))

----------------------------------------------------------------------------
(* Order of the device operations of one band-wise call (checked under
   SpecHelper) *)

\* whether event e is a delivered band
IsSent(e) == e.op = "send" /\ e.r = "ok"

\* C31: in a print_image_bandwise call the bands are delivered in strictly
\* increasing offset order, each at most once; the pacing sleep of a band
\* comes right after its delivery, before any send attempt on a later band
\* and before the first feed; and no send attempt follows a feed.
BandSleepFeedOrder ==
    \A t \in Threads :
        job[t].fn = "bandwise" =>
            LET s == log[t]
            IN  /\ \A i, j \in DOMAIN s :
                       (i < j /\ IsSent(s[i]) /\ IsSent(s[j])) => s[i].y < s[j].y
                /\ \A i \in DOMAIN s :
                       s[i].op = "sleep" =>
                           /\ i > 1
                           /\ IsSent(s[i - 1])
                           /\ s[i - 1].y = s[i].y
                /\ \A i, j \in DOMAIN s :
                       (/\ i < j
                        /\ IsSent(s[i])
                        /\ \/ s[j].op = "send" /\ s[j].y > s[i].y
                           \/ s[j].op \in {"safe_feed", "feed"})
                       => /\ i + 1 < j
                          /\ s[i + 1].op = "sleep"
                          /\ s[i + 1].y = s[i].y
                /\ \A i, j \in DOMAIN s :
                       (i < j /\ s[i].op = "feed") => s[j].op # "send"

\* three bands, the second delivered by its retry, each followed by its
\* sleep, then two feeds and the release
WitnessThreeBandsSleptThenFed ==
    /\ job[Caller].fn = "bandwise"
    /\ job[Caller].pc = "done"
    /\ Len(SentOffsets(log[Caller])) = 3
    /\ CountOp(log[Caller], "send") = 4
    /\ CountOp(log[Caller], "sleep") = 3
    /\ CountOp(log[Caller], "feed") = 2

----------------------------------------------------------------------------
(* Cancelling a job of several print calls (checked under SpecJobs) *)

\* C32: once cancel_print has set the flag during a print_weather job, no
\* send of further image data is begun in the rest of that job, neither of
\* a band of a later ticket nor of the icon (a band whose send had begun
\* may be completed).
WeatherSendsNothingAfterCancel ==
    [][(/\ kind[Caller] = "weather"
        /\ job[Caller].cancelled
        /\ print_cancel_flag
        /\ job[Caller].pc \in {"open", "loop"})
       => job'[Caller].pc # "send"]_vars

----------------------------------------------------------------------------
(* A cancel request and the jobs started after it (checked under
   SpecThreads) *)

\* the image worker is inside the band loop of its print call
WorkerInBandLoop ==
    job[Worker].fn = "bandwise" /\ job[Worker].pc \in {"loop", "send", "retry", "sleep"}

\* C33: a cancel request made since the image job began, and pending while
\* that job is in its band loop, stays pending until the job has seen it:
\* no other request, in particular no start of another job, puts
\* print_cancel_flag back to False while the job is still in the loop.
PendingCancelNotErased ==
    [][(/\ rev = "v4"
        /\ WorkerInBandLoop
        /\ cancelSinceStart
        /\ print_cancel_flag)
       => print_cancel_flag']_vars

----------------------------------------------------------------------------
(* Image requests accepted while the worker is busy (checked under
   SpecImage) *)

\* C34: every image request accepted by do_print_and_close leads to a print
\* job on the submitted image or to a reported failure for it, also when it
\* is made while the worker runs the previous job: so when the worker
\* clears print_event after a print call, that call was made on the image
\* submitted last, and no accepted request is left behind unserved.
AcceptedRequestServed ==
    [][(/\ rev = "v4"
        /\ print_event
        /\ ~print_event'
        /\ job[Worker].fn = "bandwise")
       => job[Worker].H = display_image]_vars

----------------------------------------------------------------------------
(* Refresh while a print job holds the device (checked under
   SpecDiscovery) *)

\* C35: refresh_printer does not replace a usable printer_port with None
\* while the printer stays attached: a refresh that listed a port, whose
\* failed opens all happened while a print call held the device, and that
\* ends while the worker still holds it, leaves a port in printer_port.
RefreshKeepsPortOfBusyPrinter ==
    [][(/\ rev = "v4"
        /\ probe.who = "refresh"
        /\ probe.n >= 1
        /\ probe.held
        /\ handle[Worker]
        /\ printer_port # NoPort)
       => printer_port' # NoPort]_vars

----------------------------------------------------------------------------
(* The three revisions side by side: the UI handlers and the image worker
   of print3r.py, print3r_v2.py and print3r_v4.py *)

NextRevisions ==
    \/ AppOpenImage1
    \/ PrintImage1
    \/ WorkerWake1
    \/ V1Open
    \/ V1Loop
    \/ V1Image
    \/ V1Sleep
    \/ V1Feed
    \/ AppOpenImage2
    \/ PrintImage2
    \/ WorkerWake2
    \/ V2Open
    \/ V2Image
    \/ V2Feed
    \/ V2Close
    \/ AppDoPrintAndClose
    \/ WorkerWake4
    \/ Open(Worker)
    \/ LoopCheck(Worker)
    \/ ImageAttempt(Worker)
    \/ ImageRetry(Worker)
    \/ Sleep(Worker)
    \/ SafeFeed(Worker)
    \/ Release(Worker)
    \/ WorkerStatus4
    \/ WorkerClear
    \/ RefreshPrinter
    \/ CancelPrint

SpecRevisions == InitApp /\ [][NextRevisions]_vars

\* C36: in all three revisions, whenever the print worker holds an open
\* printer handle print_event is set; print_event is cleared only by the
\* worker's own clear step, with the handle of the job released, never by
\* a requester.
EventSetWhileHandleHeld ==
    /\ [](handle[Worker] => print_event)
    /\ [][(print_event /\ ~print_event')
          => /\ job[Worker].pc = "clear"
             /\ job'[Worker].pc = "wait"
             /\ ~handle[Worker]]_vars

\* the worker holds the printer and a second print request has just been
\* turned away as busy
WitnessBusyWhileHandleHeld ==
    /\ rev = "v2"
    /\ handle[Worker]
    /\ print_event
    /\ uiResult = "Another print is running"

----------------------------------------------------------------------------
(* Termination of one print call *)

HelperStep == JobStep(Caller)

\* the calling thread keeps running and every device operation and every
\* sleep returns or raises, so a step the call can take is eventually taken
SpecHelperFair == InitHelper /\ [][NextHelper]_vars /\ WF_vars(HelperStep)

\* the call has returned or raised
CallEnded == job[Caller].pc \in {"done", "raised"}

\* C37: a print_image_bandwise call on an image of N >= 1 rows with
\* band_height >= 1 and feed_lines >= 0 terminates when every device
\* operation returns or raises: the band loop starts at most
\* ceil(N / band_height) bands, with at most two send attempts each, and
\* is followed by at most feed_lines feed attempts and the release.
BandwiseTerminates ==
    /\ [](job[Caller].fn = "bandwise" =>
            LET s == log[Caller]
                nb == NumBands(job[Caller].H, job[Caller].band_height)
            IN  /\ Cardinality({s[i].y : i \in {k \in DOMAIN s : s[k].op = "send"}})
                      <= nb
                /\ \A i \in DOMAIN s :
                       s[i].op = "send" => AttemptsAt(s, s[i].y) <= 2
                /\ CountOp(s, "sleep") <= nb
                /\ CountOp(s, "feed") <= Max(0, job[Caller].feed_lines)
                /\ CountOp(s, "close") <= 1
                /\ job[Caller].pc = "done" =>
                       /\ s[Len(s)].op = "close"
                       /\ ~handle[Caller])
    /\ <>CallEnded

\* a call of three bands, each delivered by its retry, then the feeds and
\* the release
WitnessSixAttemptsThenDone ==
    /\ job[Caller].fn = "bandwise"
    /\ job[Caller].pc = "done"
    /\ NumBands(job[Caller].H, job[Caller].band_height) = 3
    /\ CountOp(log[Caller], "send") = 6
    /\ job[Caller].feed_lines = MaxFeed
    /\ CountOp(log[Caller], "feed") = MaxFeed

====
